---- MODULE Spec2Model ----
(***************************************************************************)
(* The calendar synchronisation engine (WakuSingleNodeManager): the        *)
(* de-duplication ledger, the per-calendar watermark, the outbound          *)
(* operations and the transport between two peers.                          *)
(*                                                                          *)
(* Specifications:                                                          *)
(*   Spec           one manager ("A") fed every type of inbound message     *)
(*   SpecWatermark  one manager fed creates and bulk syncs on two           *)
(*                  calendars, reset and disconnected at any time           *)
(*   SpecLedger     one manager fed enough messages to overflow the ledger  *)
(*   SpecNet        two managers exchanging mutations over the transport    *)
(*   SpecNetFair    SpecNet with fair delivery to B                         *)
(*   SpecEcho       one manager hearing its own messages back               *)
(*   SpecE2E        the end-to-end scenario: A shares, B joins, A updates   *)
(*   SpecSync       one manager receiving, sharing and resetting            *)
(*   SpecHook       the useMultiWakuSync hook driving its manager           *)
(*   SpecHookFair   SpecHook with the pending effect run whenever it is due *)
(*   SpecStartup    start-up calls of the hook and of a manager that overlap *)
(*   SpecRemove     one manager whose channel is added and removed          *)
(*   SpecMove       the hook sharing two calendars, events updated and moved *)
(*   SpecTrip       one action of every variant sent by A, delivered to B   *)
(*   SpecMark       one manager fed every type of message, reset and        *)
(*                  disconnected at any time                                *)
(*   SpecUnshare    the application turning the sharing of calendars on/off *)
(*   SpecKey        A shares c1 under a key, B joins with, without or with  *)
(*                  another key                                             *)
(*   SpecAdd        calls of addCalendarChannel that overlap                *)
(*   SpecStop       one manager disconnected, its stopped node still        *)
(*                  reporting health                                        *)
(*   SpecApp        the application's event handler given remote actions    *)
(***************************************************************************)
EXTENDS Integers, Sequences, FiniteSets, Bags, TLC

(***************************************************************************)
(* Bounds of the model.                                                     *)
(***************************************************************************)
\* Timestamps (Date.now() values) range over 1..MaxTimestamp.
MaxTimestamp == 3
\* Spec and SpecWatermark stop delivering once onEventAction has run MaxRouted times.
MaxRouted == 2
\* The inbound messages of Spec and SpecWatermark carry timestamps
\* 1..MaxInboundTimestamp.
MaxInboundTimestamp == 2
\* The ledger's cap.  The source sets 10000 (locationUtils.ts:99); the model
\* scales it down to the smallest cap whose 30% is at least one identity.
maxProcessedMessages == 4
\* SpecNet and SpecEcho stop publishing once MaxSends messages are on the topics.
MaxSends == 2
\* SpecHook stops queueing once MaxPending calendars are on the pending list.
MaxPending == 2
\* SpecMove stops sharing calendars once MaxShared messages are on the topics.
MaxShared == 4
\* SpecStartup runs MaxCalls start-up calls, in any interleaving.
MaxCalls == 3

(***************************************************************************)
(* Values.                                                                  *)
(***************************************************************************)
Peers == {"A", "B"}

Calendars == {"c1", "c2"}

EventTypes ==
  {"CREATE_EVENT", "UPDATE_EVENT", "DELETE_EVENT", "SYNC_EVENTS",
   "SYNC_CALENDAR_DESCRIPTION", "UNSHARE_CALENDAR"}

MutationTypes == {"CREATE_EVENT", "UPDATE_EVENT", "DELETE_EVENT"}

Timestamps == 1..MaxTimestamp

\* The start-up calls of SpecStartup.
CallIds == 1..MaxCalls

\* generateSenderId: one identity per manager, fixed at construction.
senderId(p) == IF p = "A" THEN "calendar-user-A" ELSE "calendar-user-B"

\* An optional value: <<>> is undefined, <<v>> is v.
Undefined == <<>>

Opt(s) == IF s = "" THEN Undefined ELSE <<s>>

(***************************************************************************)
(* Events and their JSON form.                                              *)
(***************************************************************************)
\* A CalendarEvent: id, title, date (ms since epoch), calendarId.
Event(id, title, date, cal) ==
  [id |-> id, title |-> title, date |-> date, calendarId |-> cal]

\* JSON.stringify(event): the Date becomes its ISO string.
stringifyEvent(e) == [e EXCEPT !.date = <<"iso", e.date>>]

\* new Date(x) for the JSON value of a date.
newDate(x) == IF Len(x) = 2 /\ x[1] = "iso" THEN x[2] ELSE 0

\* The string fields eventData/eventsData: '' | JSON text | text that is not JSON.
EmptyString == [kind |-> "empty"]

Json(v) == [kind |-> "json", value |-> v]

NotJson == [kind |-> "malformed"]

\* parseEventData: JSON.parse, then the date string back to a Date.
parseEventData(s) == [s.value EXCEPT !.date = newDate(s.value.date)]

\* parseEventsData: JSON.parse, then every date string back to a Date.
parseEventsData(s) ==
  [i \in 1..Len(s.value) |-> [s.value[i] EXCEPT !.date = newDate(s.value[i].date)]]

\* JSON.parse throws on text that is not JSON.
parseThrows(decoded) ==
  \/ decoded.eventData.kind = "malformed"
  \/ decoded.eventsData.kind = "malformed"

(***************************************************************************)
(* State.                                                                   *)
(***************************************************************************)
VARIABLES
  node,                    \* [Peers -> BOOLEAN]: this.node # null
  channels,                \* [Peers -> SUBSET Calendars]: keys of this.channels
  listeners,               \* [Peers -> SUBSET Calendars]: message-received listeners attached
  isConnected,             \* [Peers -> BOOLEAN]
  processedMessageIds,     \* [Peers -> Seq(messageId)]: the Set, in insertion order
  lastProcessedTimestamp,  \* [Peers -> [subset of Calendars -> Timestamps]]: the Map
  now,                     \* Date.now()
  topic,                   \* [Calendars -> Seq(wire message)]: published, in publish order
  onEventAction,           \* [Peers -> bag of [channel, action]]: calls of the callback
  last,                    \* the last operation and what it did
  wakuManagerRef,          \* the hook: wakuManagerRef.current # null (its manager is "A")
  connections,             \* the hook: [subset of Calendars -> connectionStatus]
  globalConnectionStatus,  \* the hook: "disconnected" | "connected" | "minimal"
  pendingCalendars,        \* the hook: Undefined (null) or <<the queued calendar ids>>
  hookError,               \* the hook: the error state, "" for null
  reportedStatus,          \* the hook: Undefined, or <<the last status onConnectionStatus was given>>
  startup,                 \* [CallIds -> position of a start-up call that awaits createLightNode]
  lightNodes,              \* [Peers -> number of light nodes created and not stopped]
  encryptionKey,           \* [Peers -> [subset of Calendars -> key]]: channels stored with a key
  adding,                  \* [CallIds -> Undefined, or <<[peer, calendarId] of an add awaiting its channel>>]
  calendarEvents,          \* the application: its list of events (the state `events`)
  stoppedNodes             \* [Peers -> BOOLEAN]: a node was stopped, its waku:health listener left attached

\* The state of the useMultiWakuSync hook.
hookVars ==
  <<wakuManagerRef, connections, globalConnectionStatus, pendingCalendars, hookError,
    reportedStatus>>

vars ==
  <<node, channels, listeners, isConnected, processedMessageIds,
    lastProcessedTimestamp, now, topic, onEventAction, last,
    wakuManagerRef, connections, globalConnectionStatus, pendingCalendars, hookError,
    reportedStatus, startup, lightNodes, encryptionKey, adding, calendarEvents,
    stoppedNodes>>

\* The channel keys, the adds in flight, the application's events and the
\* stopped nodes.
restVars == <<encryptionKey, adding, calendarEvents, stoppedNodes>>

(***************************************************************************)
(* The wire message (EventActionMessage).                                   *)
(***************************************************************************)
WireMessage(type, eventId, eventData, eventsData, timestamp, sender, cal, desc, name) ==
  [type |-> type, eventId |-> eventId, eventData |-> eventData,
   eventsData |-> eventsData, timestamp |-> timestamp, senderId |-> sender,
   calendarId |-> cal, description |-> desc, calendarName |-> name]

NoMessage == WireMessage("", "", EmptyString, EmptyString, 0, "", "", "", "")

\* A payload that is not an EventActionMessage: EventActionMessage.decode throws
\* on it, so none of its fields is ever read.
Undecodable == [NoMessage EXCEPT !.type = "undecodable"]

decodeThrows(payload) == payload.type = "undecodable"

\* What an operation leaves in `last`: the operation, its arguments, whether it
\* invoked onEventAction and onError, and what it returned.
Did(op, p, cal, msg, invoked, error, returned) ==
  [op |-> op, peer |-> p, calendarId |-> cal, message |-> msg,
   invoked |-> invoked, error |-> error, returned |-> returned]

(***************************************************************************)
(* handleIncomingMessage, in the order of its checks.                       *)
(***************************************************************************)
\* `${senderId}-${timestamp}-${type}-${eventId || 'no-event'}`
messageId(decoded) ==
  <<decoded.senderId, decoded.timestamp, decoded.type,
    IF decoded.eventId = "" THEN "no-event" ELSE decoded.eventId>>

\* this.lastProcessedTimestamp.get(calendarId) || 0
getLastProcessedTimestamp(p, calendarId) ==
  IF calendarId \in DOMAIN lastProcessedTimestamp[p]
    THEN lastProcessedTimestamp[p][calendarId]
    ELSE 0

\* this.lastProcessedTimestamp.has(calendarId)
canUseIncrementalSync(p, calendarId) == calendarId \in DOMAIN lastProcessedTimestamp[p]

\* A faulty variant: the own-message check left out.
isOwnMessageNever(p, decoded) == FALSE

\* decoded.senderId === this.senderId
isOwnMessage(p, decoded) == decoded.senderId = senderId(p)

\* A faulty variant: the ledger never consulted.
alreadyProcessedNever(p, decoded) == FALSE

\* this.processedMessageIds.has(messageId)
alreadyProcessed(p, decoded) ==
  \E i \in 1..Len(processedMessageIds[p]) : processedMessageIds[p][i] = messageId(decoded)

\* Faulty variants: < for <=, and no exemption for SYNC_EVENTS.
isOldMessageStrict(p, decoded, calendarId) ==
  /\ decoded.timestamp < getLastProcessedTimestamp(p, calendarId)
  /\ decoded.type # "SYNC_EVENTS"

isOldMessageAnyType(p, decoded, calendarId) ==
  decoded.timestamp <= getLastProcessedTimestamp(p, calendarId)

\* decoded.timestamp <= lastTimestamp && decoded.type !== 'SYNC_EVENTS'
isOldMessage(p, decoded, calendarId) ==
  /\ decoded.timestamp <= getLastProcessedTimestamp(p, calendarId)
  /\ decoded.type # "SYNC_EVENTS"

\* The EventSourceAction built from the decoded message.
actionOf(decoded) ==
  [type |-> decoded.type,
   eventId |-> Opt(decoded.eventId),
   event |-> IF decoded.eventData.kind = "empty" THEN Undefined
             ELSE <<parseEventData(decoded.eventData)>>,
   events |-> IF decoded.eventsData.kind = "empty" THEN Undefined
              ELSE <<parseEventsData(decoded.eventsData)>>,
   calendarId |-> Opt(decoded.calendarId),
   description |-> Opt(decoded.description),
   calendarName |-> Opt(decoded.calendarName),
   timestamp |-> decoded.timestamp,
   senderId |-> decoded.senderId]

\* A faulty variant: every admitted message sets the watermark.
updateLastProcessedAlways(lpt, decoded, calendarId) ==
  [c \in DOMAIN lpt \cup {calendarId} |->
     IF c = calendarId THEN decoded.timestamp ELSE lpt[c]]

\* A faulty variant: a newer message of any type moves the watermark.
updateLastProcessedAnyType(lpt, decoded, calendarId) ==
  LET currentLast == IF calendarId \in DOMAIN lpt THEN lpt[calendarId] ELSE 0 IN
  IF decoded.timestamp > currentLast
    THEN [c \in DOMAIN lpt \cup {calendarId} |->
            IF c = calendarId THEN decoded.timestamp ELSE lpt[c]]
    ELSE lpt

\* The watermark map after an admitted message: only a create, update or delete
\* newer than the current value moves it.
updateLastProcessed(lpt, decoded, calendarId) ==
  LET currentLast == IF calendarId \in DOMAIN lpt THEN lpt[calendarId] ELSE 0 IN
  IF decoded.type \in MutationTypes /\ decoded.timestamp > currentLast
    THEN [c \in DOMAIN lpt \cup {calendarId} |->
            IF c = calendarId THEN decoded.timestamp ELSE lpt[c]]
    ELSE lpt

\* Math.floor(this.maxProcessedMessages * 0.3)
trimCount == (maxProcessedMessages * 3) \div 10

\* Faulty variants: no cleanup, and a cleanup that drops the newest ids.
cleanupNever(ids) == ids

cleanupNewest(ids) ==
  IF Len(ids) > maxProcessedMessages
    THEN SubSeq(ids, 1, Len(ids) - trimCount)
    ELSE ids

\* The cleanup of the id set: over the cap, idsArray.slice(0, trimCount) is deleted.
cleanup(ids) ==
  IF Len(ids) > maxProcessedMessages
    THEN SubSeq(ids, (IF trimCount < Len(ids) THEN trimCount ELSE Len(ids)) + 1, Len(ids))
    ELSE ids

\* A faulty variant: a stale message is reported instead of skipped.
outcomeReportsStale(p, decoded, calendarId) ==
  IF decodeThrows(decoded) THEN "error"
  ELSE IF isOwnMessage(p, decoded) THEN "own"
  ELSE IF alreadyProcessed(p, decoded) THEN "processed"
  ELSE IF isOldMessage(p, decoded, calendarId) THEN "error"
  ELSE IF parseThrows(decoded) THEN "error"
  ELSE "applied"

\* Which way the handler leaves: one of its three early returns, the catch
\* block, or the call of onEventAction.
outcome(p, decoded, calendarId) ==
  IF decodeThrows(decoded) THEN "error"
  ELSE IF isOwnMessage(p, decoded) THEN "own"
  ELSE IF alreadyProcessed(p, decoded) THEN "processed"
  ELSE IF isOldMessage(p, decoded, calendarId) THEN "old"
  ELSE IF parseThrows(decoded) THEN "error"
  ELSE "applied"

\* One call of the callback, with the channel the message came in on.
Call(calendarId, decoded) == [channel |-> calendarId, action |-> actionOf(decoded)]

\* A faulty variant: the message id and the watermark are recorded before the
\* payload is parsed, so a message whose payload does not parse is recorded.
handleIncomingMessageRecordsFirst(p, decoded, calendarId) ==
  LET res == outcome(p, decoded, calendarId)
      admitted == res = "applied" \/ (res = "error" /\ ~decodeThrows(decoded)) IN
  /\ UNCHANGED <<hookVars, startup, lightNodes, restVars>>
  /\ last' = Did("handleIncomingMessage", p, calendarId, decoded,
                 res = "applied", res = "error", FALSE)
  /\ processedMessageIds' =
       IF admitted
         THEN [processedMessageIds EXCEPT
                 ![p] = cleanup(Append(@, messageId(decoded)))]
         ELSE processedMessageIds
  /\ lastProcessedTimestamp' =
       IF admitted
         THEN [lastProcessedTimestamp EXCEPT
                 ![p] = updateLastProcessed(@, decoded, calendarId)]
         ELSE lastProcessedTimestamp
  /\ onEventAction' =
       IF res = "applied"
         THEN [onEventAction EXCEPT
                 ![p] = @ (+) SetToBag({Call(calendarId, decoded)})]
         ELSE onEventAction
  /\ UNCHANGED <<node, channels, listeners, isConnected, now, topic>>

\* The message-received listener of a channel: decode, the three early returns,
\* the build of the action (which parses the payload), then the ledger, the
\* watermark and the callback; anything thrown goes to the error listener.
handleIncomingMessage(p, decoded, calendarId) ==
  LET res == outcome(p, decoded, calendarId) IN
  /\ UNCHANGED <<hookVars, startup, lightNodes, restVars>>
  /\ last' = Did("handleIncomingMessage", p, calendarId, decoded,
                 res = "applied", res = "error", FALSE)
  /\ IF res = "applied"
       THEN /\ processedMessageIds' =
                 [processedMessageIds EXCEPT
                    ![p] = cleanup(Append(@, messageId(decoded)))]
            /\ lastProcessedTimestamp' =
                 [lastProcessedTimestamp EXCEPT
                    ![p] = updateLastProcessed(@, decoded, calendarId)]
            /\ onEventAction' =
                 [onEventAction EXCEPT
                    ![p] = @ (+) SetToBag({Call(calendarId, decoded)})]
       ELSE UNCHANGED <<processedMessageIds, lastProcessedTimestamp, onEventAction>>
  /\ UNCHANGED <<node, channels, listeners, isConnected, now, topic>>

(***************************************************************************)
(* Channel lifecycle and sync state.                                        *)
(***************************************************************************)
\* initialize(): true at once if there is a node; else createLightNode either
\* yields the node or throws, which is reported and returns false.
initialize(p) ==
  \E created \in BOOLEAN :
    /\ node' = [node EXCEPT ![p] = @ \/ created]
    /\ UNCHANGED restVars
    /\ lightNodes' = [lightNodes EXCEPT ![p] = IF ~node[p] /\ created THEN @ + 1 ELSE @]
    /\ UNCHANGED <<hookVars, startup>>
    /\ last' = Did("initialize", p, "", NoMessage, FALSE,
                   ~node[p] /\ ~created, node[p] \/ created)
    /\ UNCHANGED <<channels, listeners, isConnected, processedMessageIds,
                   lastProcessedTimestamp, now, topic, onEventAction>>

\* The waku:health listener: sufficient and minimal health connect, anything
\* else disconnects.
health(p, status) ==
  /\ node[p]
  /\ isConnected' = [isConnected EXCEPT ![p] = status \in {"sufficient", "minimal"}]
  /\ UNCHANGED <<hookVars, startup, lightNodes, restVars>>
  /\ last' = Did("health", p, "", NoMessage, FALSE, FALSE, FALSE)
  /\ UNCHANGED <<node, channels, listeners, processedMessageIds,
                 lastProcessedTimestamp, now, topic, onEventAction>>

\* The waku:health listener of a node that disconnect() has stopped: it was
\* never removed, and it writes the manager's flag as before.
staleHealth(p, status) ==
  /\ stoppedNodes[p]
  /\ isConnected' = [isConnected EXCEPT ![p] = status \in {"sufficient", "minimal"}]
  /\ UNCHANGED <<hookVars, startup, lightNodes, restVars>>
  /\ last' = Did("health", p, "", NoMessage, FALSE, FALSE, FALSE)
  /\ UNCHANGED <<node, channels, listeners, processedMessageIds,
                 lastProcessedTimestamp, now, topic, onEventAction>>

\* The key stored with the channel of a calendar, Undefined when it has none.
keyOf(p, calendarId) ==
  IF calendarId \in DOMAIN encryptionKey[p]
    THEN <<encryptionKey[p][calendarId]>>
    ELSE Undefined

\* The stored keys once the channel of calendarId is stored with `key`.
withKey(keys, calendarId, key) ==
  [c \in (DOMAIN keys \ {calendarId}) \cup (IF key = Undefined THEN {} ELSE {calendarId}) |->
     IF c = calendarId THEN key[1] ELSE keys[c]]

\* addCalendarChannel(calendarId, encryptionKey): needs the node; a second add
\* is a no-op; else ReliableChannel.create either yields the channel, which
\* gets its message-received listener and is stored with the key, or throws.
\* The encoder and the decoder are made from the content topic alone.
addCalendarChannelWith(p, calendarId, key) ==
  \E created \in BOOLEAN :
    LET has == calendarId \in channels[p]
        adds == node[p] /\ ~has /\ created
    IN
    /\ UNCHANGED <<hookVars, startup, lightNodes, adding, calendarEvents, stoppedNodes>>
    /\ encryptionKey' =
         [encryptionKey EXCEPT ![p] = IF adds THEN withKey(@, calendarId, key) ELSE @]
    /\ last' = Did("addCalendarChannel", p, calendarId, NoMessage, FALSE,
                   ~node[p] \/ (~has /\ ~created), node[p] /\ (has \/ created))
    /\ channels' = [channels EXCEPT ![p] = IF adds THEN @ \cup {calendarId} ELSE @]
    /\ listeners' = [listeners EXCEPT ![p] = IF adds THEN @ \cup {calendarId} ELSE @]
    /\ UNCHANGED <<node, isConnected, processedMessageIds, lastProcessedTimestamp,
                   now, topic, onEventAction>>

\* A faulty variant: the registry is not consulted, a channel is created on
\* every call.
addCalendarChannelAlways(p, calendarId) ==
  \E created \in BOOLEAN :
    /\ UNCHANGED <<hookVars, startup, lightNodes, restVars>>
    /\ last' = Did("addCalendarChannel", p, calendarId, NoMessage, FALSE,
                   ~node[p] \/ ~created, node[p] /\ created)
    /\ channels' = [channels EXCEPT ![p] = IF node[p] /\ created THEN @ \cup {calendarId} ELSE @]
    /\ listeners' = [listeners EXCEPT ![p] = IF node[p] /\ created THEN @ \cup {calendarId} ELSE @]
    /\ UNCHANGED <<node, isConnected, processedMessageIds, lastProcessedTimestamp,
                   now, topic, onEventAction>>

\* addCalendarChannel(calendarId): a call that gives no key.
addCalendarChannel(p, calendarId) ==
  addCalendarChannelWith(p, calendarId, Undefined)

\* removeCalendarChannel(calendarId): the channel is deleted from the registry;
\* nothing is done to the channel itself, whose listener stays attached.
removeCalendarChannel(p, calendarId) ==
  /\ channels' = [channels EXCEPT ![p] = @ \ {calendarId}]
  /\ encryptionKey' = [encryptionKey EXCEPT ![p] = withKey(@, calendarId, Undefined)]
  /\ UNCHANGED <<hookVars, startup, lightNodes, adding, calendarEvents, stoppedNodes>>
  /\ last' = Did("removeCalendarChannel", p, calendarId, NoMessage, FALSE, FALSE, FALSE)
  /\ UNCHANGED <<node, listeners, isConnected, processedMessageIds,
                 lastProcessedTimestamp, now, topic, onEventAction>>

\* A faulty variant: the watermark of the calendar is kept.
resetSyncStateKeeps(p, calendarId) ==
  /\ UNCHANGED <<hookVars, startup, lightNodes, restVars>>
  /\ last' = Did("resetSyncState", p, calendarId, NoMessage, FALSE, FALSE, FALSE)
  /\ UNCHANGED <<node, channels, listeners, isConnected, processedMessageIds,
                 lastProcessedTimestamp, now, topic, onEventAction>>

\* resetSyncState(calendarId): this.lastProcessedTimestamp.delete(calendarId)
resetSyncState(p, calendarId) ==
  /\ lastProcessedTimestamp' =
       [lastProcessedTimestamp EXCEPT
          ![p] = [c \in DOMAIN @ \ {calendarId} |-> @[c]]]
  /\ UNCHANGED <<hookVars, startup, lightNodes, restVars>>
  /\ last' = Did("resetSyncState", p, calendarId, NoMessage, FALSE, FALSE, FALSE)
  /\ UNCHANGED <<node, channels, listeners, isConnected, processedMessageIds,
                 now, topic, onEventAction>>

\* disconnect(): clears the channels and the sync state, stops the node.
disconnect(p) ==
  /\ channels' = [channels EXCEPT ![p] = {}]
  /\ processedMessageIds' = [processedMessageIds EXCEPT ![p] = <<>>]
  /\ lastProcessedTimestamp' = [lastProcessedTimestamp EXCEPT ![p] = <<>>]
  /\ node' = [node EXCEPT ![p] = FALSE]
  /\ isConnected' = [isConnected EXCEPT ![p] = IF node[p] THEN FALSE ELSE @]
  /\ encryptionKey' = [encryptionKey EXCEPT ![p] = <<>>]
  /\ stoppedNodes' = [stoppedNodes EXCEPT ![p] = @ \/ node[p]]
  /\ UNCHANGED <<adding, calendarEvents>>
  /\ lightNodes' = [lightNodes EXCEPT ![p] = IF node[p] THEN @ - 1 ELSE @]
  /\ UNCHANGED <<hookVars, startup>>
  /\ last' = Did("disconnect", p, "", NoMessage, FALSE, FALSE, FALSE)
  /\ UNCHANGED <<listeners, now, topic, onEventAction>>

(***************************************************************************)
(* Outbound operations.                                                     *)
(***************************************************************************)
\* The argument of sendEventAction: an EventSourceAction without senderId and
\* timestamp.  Absent fields are Undefined.
Action(type, eventId, event, events, cal, desc, name) ==
  [type |-> type, eventId |-> eventId, event |-> event, events |-> events,
   calendarId |-> cal, description |-> desc, calendarName |-> name]

\* x || '' for an optional string.
OrEmpty(o) == IF o = Undefined THEN "" ELSE o[1]

\* EventActionMessage.create({...}): the fields the call names; calendarName is
\* not among them, so it keeps the protobuf default ''.
createMessage(p, action, timestamp) ==
  WireMessage(action.type,
              OrEmpty(action.eventId),
              IF action.event = Undefined THEN EmptyString
              ELSE Json(stringifyEvent(action.event[1])),
              IF action.events = Undefined THEN EmptyString
              ELSE Json([i \in 1..Len(action.events[1]) |->
                           stringifyEvent(action.events[1][i])]),
              timestamp,
              senderId(p),
              OrEmpty(action.calendarId),
              OrEmpty(action.description),
              "")

\* A faulty variant: the health of the node is not looked at.
canSendAnyHealth(p, calendarId) == calendarId \in channels[p]

\* The guard of sendEventAction: the channel exists and the node is connected.
canSend(p, calendarId) == calendarId \in channels[p] /\ isConnected[p]

\* The topics after sendEventAction(calendarId, action) at time `now`.
published(tp, p, calendarId, action) ==
  IF canSend(p, calendarId)
    THEN [tp EXCEPT ![calendarId] = Append(@, createMessage(p, action, now))]
    ELSE tp

\* A faulty variant: a successful send of a create, update or delete moves the
\* sender's own watermark to the timestamp it sent.
sendEventActionMarks(op, p, calendarId, action) ==
  /\ topic' = published(topic, p, calendarId, action)
  /\ UNCHANGED <<hookVars, startup, lightNodes, restVars>>
  /\ last' = Did(op, p, calendarId,
                 IF canSend(p, calendarId) THEN createMessage(p, action, now) ELSE NoMessage,
                 FALSE, ~canSend(p, calendarId), canSend(p, calendarId))
  /\ lastProcessedTimestamp' =
       IF canSend(p, calendarId)
         THEN [lastProcessedTimestamp EXCEPT
                 ![p] = updateLastProcessed(@, createMessage(p, action, now), calendarId)]
         ELSE lastProcessedTimestamp
  /\ UNCHANGED <<node, channels, listeners, isConnected, processedMessageIds,
                 now, onEventAction>>

\* sendEventAction, named by the public operation `op` that calls it.
sendEventAction(op, p, calendarId, action) ==
  /\ topic' = published(topic, p, calendarId, action)
  /\ UNCHANGED <<hookVars, startup, lightNodes, restVars>>
  /\ last' = Did(op, p, calendarId,
                 IF canSend(p, calendarId) THEN createMessage(p, action, now) ELSE NoMessage,
                 FALSE, ~canSend(p, calendarId), canSend(p, calendarId))
  /\ UNCHANGED <<node, channels, listeners, isConnected, processedMessageIds,
                 lastProcessedTimestamp, now, onEventAction>>

createEvent(p, calendarId, event) ==
  sendEventAction("createEvent", p, calendarId,
    Action("CREATE_EVENT", <<event.id>>, <<event>>, Undefined, Undefined, Undefined, Undefined))

updateEvent(p, calendarId, event) ==
  sendEventAction("updateEvent", p, calendarId,
    Action("UPDATE_EVENT", <<event.id>>, <<event>>, Undefined, Undefined, Undefined, Undefined))

deleteEvent(p, calendarId, eventId) ==
  sendEventAction("deleteEvent", p, calendarId,
    Action("DELETE_EVENT", <<eventId>>, Undefined, Undefined, Undefined, Undefined, Undefined))

syncEventsAction(events) ==
  Action("SYNC_EVENTS", Undefined, Undefined, <<events>>, Undefined, Undefined, Undefined)

syncEvents(p, calendarId, events) ==
  sendEventAction("syncEvents", p, calendarId, syncEventsAction(events))

syncCalendarDescriptionAction(calendarId, description) ==
  Action("SYNC_CALENDAR_DESCRIPTION", Undefined, Undefined, Undefined,
         <<calendarId>>, <<description>>, Undefined)

syncCalendarDescription(p, calendarId, description) ==
  sendEventAction("syncCalendarDescription", p, calendarId,
                  syncCalendarDescriptionAction(calendarId, description))

unshareCalendar(p, calendarId, calendarName) ==
  sendEventAction("unshareCalendar", p, calendarId,
    Action("UNSHARE_CALENDAR", Undefined, Undefined, Undefined,
           <<calendarId>>, Undefined, <<calendarName>>))

\* events.filter(event => event.calendarId === calendarId)
calendarEventsOf(events, calendarId) ==
  SelectSeq(events, LAMBDA e : e.calendarId = calendarId)

\* Faulty variants: the events of every calendar are sent; the incremental
\* sync takes the events dated at the watermark too.
eventsToSyncUnfiltered(p, calendarId, events, forceFullSync) == events

eventsToSyncInclusive(p, calendarId, events, forceFullSync) ==
  IF forceFullSync \/ calendarId \notin DOMAIN lastProcessedTimestamp[p]
    THEN SelectSeq(events, LAMBDA e : e.calendarId = calendarId)
    ELSE SelectSeq(SelectSeq(events, LAMBDA e : e.calendarId = calendarId),
                   LAMBDA e : e.date >= getLastProcessedTimestamp(p, calendarId))

\* The events initializeSharing sends: all of the calendar's on a full sync,
\* those dated after the watermark on an incremental one.
eventsToSync(p, calendarId, events, forceFullSync) ==
  IF forceFullSync \/ calendarId \notin DOMAIN lastProcessedTimestamp[p]
    THEN calendarEventsOf(events, calendarId)
    ELSE SelectSeq(calendarEventsOf(events, calendarId),
                   LAMBDA e : e.date > getLastProcessedTimestamp(p, calendarId))

\* A faulty variant: the events go out before the description.
sharedTopicEventsFirst(tp, p, calendarId, description, events, forceFullSync) ==
  LET toSync == eventsToSync(p, calendarId, events, forceFullSync)
      afterEvents ==
        IF Len(toSync) > 0
          THEN published(tp, p, calendarId, syncEventsAction(toSync))
          ELSE tp
  IN IF ~isConnected[p] THEN tp
     ELSE IF description = "" THEN afterEvents
     ELSE published(afterEvents, p, calendarId,
                    syncCalendarDescriptionAction(calendarId, description))

\* The topics after initializeSharing: when connected, the description if
\* there is one, then the events to sync if there are any.
sharedTopic(tp, p, calendarId, description, events, forceFullSync) ==
  LET afterDescription ==
        IF description = "" THEN tp
        ELSE published(tp, p, calendarId,
                       syncCalendarDescriptionAction(calendarId, description))
      toSync == eventsToSync(p, calendarId, events, forceFullSync)
  IN IF ~isConnected[p] THEN tp
     ELSE IF Len(toSync) > 0
       THEN published(afterDescription, p, calendarId, syncEventsAction(toSync))
       ELSE afterDescription

\* Whether initializeSharing reports an error: not connected, or a send of its
\* own that found no channel.
sharingFails(p, calendarId, description, events, forceFullSync) ==
  \/ ~isConnected[p]
  \/ /\ description # "" \/ Len(eventsToSync(p, calendarId, events, forceFullSync)) > 0
     /\ ~canSend(p, calendarId)

\* initializeSharing(calendarId, calendar, events, forceFullSync): false when
\* not connected, true otherwise, whatever became of its sends.
initializeSharing(p, calendarId, description, events, forceFullSync) ==
  /\ topic' = sharedTopic(topic, p, calendarId, description, events, forceFullSync)
  /\ UNCHANGED <<hookVars, startup, lightNodes, restVars>>
  /\ last' = Did("initializeSharing", p, calendarId, NoMessage, FALSE,
                 sharingFails(p, calendarId, description, events, forceFullSync),
                 isConnected[p])
  /\ UNCHANGED <<node, channels, listeners, isConnected, processedMessageIds,
                 lastProcessedTimestamp, now, onEventAction>>

(***************************************************************************)
(* The environment: the clock and the transport.                            *)
(***************************************************************************)
tick ==
  /\ now < MaxTimestamp
  /\ now' = now + 1
  /\ UNCHANGED <<hookVars, startup, lightNodes, restVars>>
  /\ last' = Did("tick", "", "", NoMessage, FALSE, FALSE, FALSE)
  /\ UNCHANGED <<node, channels, listeners, isConnected, processedMessageIds,
                 lastProcessedTimestamp, topic, onEventAction>>

\* The transport hands a published message to a listener of its topic: any
\* message, any number of times, in any order, the sender's own included.
transport(p, calendarId, m) ==
  /\ calendarId \in listeners[p]
  /\ \E i \in 1..Len(topic[calendarId]) : topic[calendarId][i] = m
  /\ handleIncomingMessage(p, m, calendarId)

deliver(p, calendarId) ==
  \E i \in 1..Len(topic[calendarId]) : transport(p, calendarId, topic[calendarId][i])

(***************************************************************************)
(* Spec: one manager ("A") with a channel on one calendar, fed any message  *)
(* a remote peer can have built, in any order and any number of times.      *)
(***************************************************************************)
Init ==
  /\ node = [p \in Peers |-> FALSE]
  /\ channels = [p \in Peers |-> {}]
  /\ listeners = [p \in Peers |-> {}]
  /\ isConnected = [p \in Peers |-> FALSE]
  /\ processedMessageIds = [p \in Peers |-> <<>>]
  /\ lastProcessedTimestamp = [p \in Peers |-> <<>>]
  /\ now = 1
  /\ topic = [c \in Calendars |-> <<>>]
  /\ onEventAction = [p \in Peers |-> EmptyBag]
  /\ last = Did("constructor", "", "", NoMessage, FALSE, FALSE, FALSE)
  /\ wakuManagerRef = FALSE
  /\ connections = <<>>
  /\ globalConnectionStatus = "disconnected"
  /\ pendingCalendars = Undefined
  /\ hookError = ""
  /\ reportedStatus = Undefined
  /\ startup = [i \in CallIds |-> "idle"]
  /\ lightNodes = [p \in Peers |-> 0]
  /\ encryptionKey = [p \in Peers |-> <<>>]
  /\ adding = [i \in CallIds |-> Undefined]
  /\ calendarEvents = <<>>
  /\ stoppedNodes = [p \in Peers |-> FALSE]

\* The message peer p builds for an operation of each type at time ts.
MessageOf(type, ts, p) ==
  LET e == Event("e1", "v1", 1, "c1") IN
  createMessage(p,
    CASE type \in {"CREATE_EVENT", "UPDATE_EVENT"} ->
           Action(type, <<e.id>>, <<e>>, Undefined, Undefined, Undefined, Undefined)
      [] type = "DELETE_EVENT" ->
           Action(type, <<e.id>>, Undefined, Undefined, Undefined, Undefined, Undefined)
      [] type = "SYNC_EVENTS" -> syncEventsAction(<<e>>)
      [] type = "SYNC_CALENDAR_DESCRIPTION" -> syncCalendarDescriptionAction("c1", "d")
      [] OTHER ->
           Action(type, Undefined, Undefined, Undefined, <<"c1">>, Undefined, <<"n">>),
    ts)

\* Every type at every inbound timestamp from the remote peer, and a create
\* whose eventData is not JSON.
InboundMessages ==
  {MessageOf(type, ts, "B") : type \in EventTypes, ts \in 1..MaxInboundTimestamp}
  \cup {[MessageOf("CREATE_EVENT", ts, "B") EXCEPT !.eventData = NotJson] :
          ts \in 1..MaxInboundTimestamp}
  \cup {[MessageOf("SYNC_EVENTS", 1, "B") EXCEPT !.eventsData = NotJson], Undecodable}

Routed(p) == BagCardinality(onEventAction[p])

Receive ==
  \E m \in InboundMessages :
    /\ "c1" \in listeners["A"]
    /\ Routed("A") < MaxRouted \/ outcome("A", m, "c1") # "applied"
    /\ handleIncomingMessage("A", m, "c1")

Setup ==
  \/ initialize("A")
  \/ \E status \in {"sufficient", "minimal", "none"} : health("A", status)
  \/ addCalendarChannel("A", "c1")

Next == Setup \/ Receive

Spec == Init /\ [][Next]_vars

(***************************************************************************)
(* SpecWatermark: a manager with channels on both calendars, fed creates    *)
(* and bulk syncs, whose sync state is reset and which is disconnected at   *)
(* any time.                                                                *)
(***************************************************************************)
WatermarkMessages ==
  {MessageOf(type, ts, "B") :
     type \in {"CREATE_EVENT", "SYNC_EVENTS"}, ts \in 1..MaxInboundTimestamp}

WatermarkSetup == initialize("A") \/ \E c \in Calendars : addCalendarChannel("A", c)

WatermarkReceive ==
  \E m \in WatermarkMessages, c \in Calendars :
    /\ c \in listeners["A"]
    /\ Routed("A") < MaxRouted \/ outcome("A", m, c) # "applied"
    /\ handleIncomingMessage("A", m, c)

Reset == (\E c \in Calendars : resetSyncState("A", c)) \/ disconnect("A")

NextWatermark == WatermarkSetup \/ WatermarkReceive \/ Reset

SpecWatermark == Init /\ [][NextWatermark]_vars

(***************************************************************************)
(* SpecMark: the manager of SpecWatermark, whose channel of c1 is fed       *)
(* messages of every type and whose channel of c2 is fed one create.        *)
(***************************************************************************)
\* Creates at every inbound timestamp; one message of every other type, at the
\* highest inbound timestamp.
MarkMessages ==
  {MessageOf("CREATE_EVENT", ts, "B") : ts \in 1..MaxInboundTimestamp}
  \cup {MessageOf(type, MaxInboundTimestamp, "B") : type \in EventTypes}

MarkReceive ==
  \E m \in MarkMessages, c \in Calendars :
    /\ c \in listeners["A"]
    /\ c = "c2" => m = MessageOf("CREATE_EVENT", 1, "B")
    /\ Routed("A") < MaxRouted \/ outcome("A", m, c) # "applied"
    /\ handleIncomingMessage("A", m, c)

NextMark == WatermarkSetup \/ MarkReceive \/ Reset

SpecMark == Init /\ [][NextMark]_vars

(***************************************************************************)
(* SpecLedger: the same manager fed creates and bulk syncs only, as many as *)
(* it takes to overflow the ledger; it stops at the first repeated call of  *)
(* the callback.                                                            *)
(***************************************************************************)
LedgerMessages ==
  {MessageOf(type, ts, "B") : type \in {"CREATE_EVENT", "SYNC_EVENTS"}, ts \in Timestamps}

NoRepeatedCall(p) ==
  \A x \in BagToSet(onEventAction[p]) : CopiesIn(x, onEventAction[p]) <= 1

LedgerReceive ==
  \E m \in LedgerMessages :
    /\ "c1" \in listeners["A"]
    /\ NoRepeatedCall("A")
    /\ handleIncomingMessage("A", m, "c1")

LedgerSetup == initialize("A") \/ addCalendarChannel("A", "c1")

NextLedger == LedgerSetup \/ LedgerReceive

SpecLedger == Init /\ [][NextLedger]_vars

(***************************************************************************)
(* SpecNet: two managers sharing calendar c1; A publishes mutations, the    *)
(* transport delivers them to both.  SpecNetFair adds the transport's       *)
(* promise that every published mutation keeps being delivered to B.        *)
(***************************************************************************)
Published == Len(topic["c1"]) + Len(topic["c2"])

E1 == Event("e1", "v1", 1, "c1")
E1v2 == Event("e1", "v2", 2, "c1")
E2 == Event("e2", "v1", 3, "c1")
Other == Event("e3", "v1", 2, "c2")

NetSetup ==
  \/ \E p \in Peers : initialize(p) \/ addCalendarChannel(p, "c1")
  \/ \E status \in {"sufficient", "minimal", "none"} : health("A", status)

NetSend ==
  /\ Published < MaxSends
  /\ \/ createEvent("A", "c1", E1)
     \/ updateEvent("A", "c1", E1v2)
     \/ deleteEvent("A", "c1", "e1")

NetDeliver == \E p \in Peers : deliver(p, "c1")

NextNet == NetSetup \/ NetSend \/ tick \/ NetDeliver

SpecNet == Init /\ [][NextNet]_vars

\* Every mutation message A can publish in SpecNet.
MutationEnvelopes ==
  {MessageOf(type, ts, "A") : type \in {"CREATE_EVENT", "DELETE_EVENT"}, ts \in Timestamps}
  \cup {createMessage("A",
          Action("UPDATE_EVENT", <<"e1">>, <<E1v2>>, Undefined, Undefined, Undefined, Undefined),
          ts) : ts \in Timestamps}

SpecNetFair ==
  SpecNet /\ \A m \in MutationEnvelopes : WF_vars(transport("B", "c1", m))

(***************************************************************************)
(* SpecEcho: one manager publishing through every public operation and      *)
(* hearing its own messages back.                                           *)
(***************************************************************************)
ShareInputs == {<<>>, <<E1>>, <<E1, Other, E2>>}

EchoSetup ==
  \/ initialize("A")
  \/ \E status \in {"sufficient", "minimal", "none"} : health("A", status)
  \/ addCalendarChannel("A", "c1")

EchoSend ==
  /\ Published < MaxSends
  /\ \/ createEvent("A", "c1", E1)
     \/ updateEvent("A", "c1", E1v2)
     \/ deleteEvent("A", "c1", "e1")
     \/ syncEvents("A", "c1", <<E1>>)
     \/ syncCalendarDescription("A", "c1", "d")
     \/ unshareCalendar("A", "c1", "n")
     \/ \E events \in ShareInputs, forceFullSync \in BOOLEAN :
          initializeSharing("A", "c1", "d", events, forceFullSync)

EchoDeliver == deliver("A", "c1")

NextEcho == EchoSetup \/ EchoSend \/ tick \/ EchoDeliver

SpecEcho == Init /\ [][NextEcho]_vars

(***************************************************************************)
(* SpecTrip: A publishes one action of every variant on calendar c1 through *)
(* sendEventAction; the transport delivers to B, whose handler rebuilds the *)
(* action.                                                                  *)
(***************************************************************************)
\* The arguments the public operations hand to sendEventAction, with a bulk
\* sync of no events and an envelope that has none of the optional fields.
TripActions ==
  {Action("CREATE_EVENT", <<"e1">>, <<E1>>, Undefined, Undefined, Undefined, Undefined),
   Action("UPDATE_EVENT", <<"e1">>, <<E1v2>>, Undefined, Undefined, Undefined, Undefined),
   Action("DELETE_EVENT", <<"e1">>, Undefined, Undefined, Undefined, Undefined, Undefined),
   Action("DELETE_EVENT", Undefined, Undefined, Undefined, Undefined, Undefined, Undefined),
   syncEventsAction(<<>>),
   syncEventsAction(<<E1, E2>>),
   syncCalendarDescriptionAction("c1", "d"),
   Action("UNSHARE_CALENDAR", Undefined, Undefined, Undefined, <<"c1">>, Undefined, <<"n">>)}

\* The public operation that sends an action of the given type.
OperationOf(type) ==
  CASE type = "CREATE_EVENT" -> "createEvent"
    [] type = "UPDATE_EVENT" -> "updateEvent"
    [] type = "DELETE_EVENT" -> "deleteEvent"
    [] type = "SYNC_EVENTS" -> "syncEvents"
    [] type = "SYNC_CALENDAR_DESCRIPTION" -> "syncCalendarDescription"
    [] type = "UNSHARE_CALENDAR" -> "unshareCalendar"

TripSetup ==
  \/ \E p \in Peers : initialize(p) \/ addCalendarChannel(p, "c1")
  \/ health("A", "sufficient")

TripSend ==
  /\ Published = 0
  /\ \E action \in TripActions :
       sendEventAction(OperationOf(action.type), "A", "c1", action)

TripDeliver == deliver("B", "c1")

NextTrip == TripSetup \/ TripSend \/ tick \/ TripDeliver

SpecTrip == Init /\ [][NextTrip]_vars

(***************************************************************************)
(* SpecKey: A, which holds the key of the private calendar c1, publishes on *)
(* it; B adds the channel without a key, with another key or with the key. *)
(***************************************************************************)
KeySetup ==
  \/ \E p \in Peers : initialize(p)
  \/ health("A", "sufficient")
  \/ addCalendarChannelWith("A", "c1", <<"k">>)
  \/ \E key \in {Undefined, <<"other">>, <<"k">>} : addCalendarChannelWith("B", "c1", key)
  \/ removeCalendarChannel("B", "c1")

NextKey == KeySetup \/ TripSend \/ tick \/ TripDeliver

SpecKey == Init /\ [][NextKey]_vars

(***************************************************************************)
(* SpecE2E: A shares calendar c1 once, then updates one of its events once; *)
(* the transport delivers to B and back to A.                               *)
(***************************************************************************)
OnTopic(type) == \E i \in 1..Len(topic["c1"]) : topic["c1"][i].type = type

Share ==
  /\ Published = 0
  /\ \E description \in {"", "d"}, events \in ShareInputs, forceFullSync \in BOOLEAN :
       initializeSharing("A", "c1", description, events, forceFullSync)

Update ==
  /\ OnTopic("SYNC_EVENTS")
  /\ ~OnTopic("UPDATE_EVENT")
  /\ updateEvent("A", "c1", E1v2)

NextE2E == NetSetup \/ Share \/ Update \/ tick \/ NetDeliver

SpecE2E == Init /\ [][NextE2E]_vars

(***************************************************************************)
(* SpecSync: a manager that receives remote creates, shares calendar c1     *)
(* with or without a description and a forced full sync, and has its sync   *)
(* state reset.                                                             *)
(***************************************************************************)
SyncReceive ==
  \E ts \in Timestamps :
    /\ "c1" \in listeners["A"]
    /\ \/ Routed("A") < MaxRouted
       \/ outcome("A", MessageOf("CREATE_EVENT", ts, "B"), "c1") # "applied"
    /\ handleIncomingMessage("A", MessageOf("CREATE_EVENT", ts, "B"), "c1")

SyncShare ==
  /\ Published < MaxSends
  /\ \E description \in {"", "d"}, events \in ShareInputs, forceFullSync \in BOOLEAN :
       initializeSharing("A", "c1", description, events, forceFullSync)

SyncReset == resetSyncState("A", "c1")

NextSync == EchoSetup \/ SyncReceive \/ SyncShare \/ SyncReset

SpecSync == Init /\ [][NextSync]_vars

(***************************************************************************)
(* The useMultiWakuSync hook.  It owns one manager, "A", created on the    *)
(* first request.  The application hands it AllEvents and calendars whose   *)
(* metadata is descriptionOf; each callback runs to completion with the     *)
(* globalConnectionStatus of the render that created it.                    *)
(***************************************************************************)
descriptionOf(calendarId) == IF calendarId = "c1" THEN "d" ELSE ""

AllEvents == <<E1, Other, E2>>

\* The manager's health as its onConnectionStatus argument.
connectionStatusOf(status) ==
  IF status = "sufficient" THEN "connected"
  ELSE IF status = "minimal" THEN "minimal"
  ELSE "disconnected"

\* updateGlobalStatus() over connectionsRef.current; conn.isConnected is
\* conn.connectionStatus # 'disconnected' wherever the hook sets the two.
updateGlobalStatus(conns) ==
  LET connectedCount == Cardinality({c \in DOMAIN conns : conns[c] # "disconnected"}) IN
  IF DOMAIN conns = {} THEN "disconnected"
  ELSE IF connectedCount = 0 THEN "disconnected"
  ELSE IF connectedCount = Cardinality(DOMAIN conns) THEN "connected"
  ELSE "minimal"

\* initializeWakuNode(): with a manager, its getConnectionStatus(); without
\* one, whether the new manager's initialize() created the node.
nodeReady(created) == IF wakuManagerRef THEN isConnected["A"] ELSE created

\* What the hook's initializeSharing(calendar.id, calendar, calendarEvents,
\* !canUseIncrementalSync) publishes on a channel just added: the description
\* if any, then the events to sync if any; nothing when not connected.
sharingMessages(calendarId) ==
  LET toSync == eventsToSync("A", calendarId, calendarEventsOf(AllEvents, calendarId),
                             ~canUseIncrementalSync("A", calendarId))
  IN IF ~isConnected["A"] THEN <<>>
     ELSE (IF descriptionOf(calendarId) = "" THEN <<>>
           ELSE <<createMessage("A",
                    syncCalendarDescriptionAction(calendarId, descriptionOf(calendarId)),
                    now)>>)
          \o (IF Len(toSync) > 0
                THEN <<createMessage("A", syncEventsAction(toSync), now)>>
                ELSE <<>>)

\* Whether performInitialization's addCalendarChannel succeeds for a calendar:
\* the channel exists, or ReliableChannel.create does not throw (fails: the
\* calendars for which it throws).
channelAdded(calendarId, fails) == calendarId \in channels["A"] \/ calendarId \notin fails

\* The topics after performInitialization's loop over the calendars, in order.
RECURSIVE initializedTopic(_, _, _)
initializedTopic(tp, calendars, fails) ==
  IF calendars = <<>> THEN tp
  ELSE initializedTopic(
         IF channelAdded(Head(calendars), fails)
           THEN [tp EXCEPT ![Head(calendars)] = @ \o sharingMessages(Head(calendars))]
           ELSE tp,
         Tail(calendars), fails)

\* performInitialization(sharedCalendars, allEvents): without a manager only
\* the error is set; else every calendar gets its channel and its
\* initializeSharing, the connections are replaced by those that got one, the
\* global status is recomputed and the pending calendars are cleared.
performInitialization(calendars, fails) ==
  LET added == {c \in {calendars[i] : i \in 1..Len(calendars)} : channelAdded(c, fails)}
      newConnections == [c \in added |-> globalConnectionStatus]
  IN
  IF ~wakuManagerRef'
    THEN /\ hookError' = "Multi-sync initialization error"
         /\ UNCHANGED <<channels, listeners, topic, connections,
                        globalConnectionStatus, pendingCalendars>>
    ELSE /\ channels' = [channels EXCEPT !["A"] = @ \cup added]
         /\ listeners' = [listeners EXCEPT !["A"] = @ \cup added]
         /\ topic' = initializedTopic(topic, calendars, fails)
         /\ connections' = newConnections
         /\ globalConnectionStatus' = updateGlobalStatus(newConnections)
         /\ pendingCalendars' = Undefined
         /\ hookError' =
              IF \A i \in 1..Len(calendars) : channelAdded(calendars[i], fails)
                THEN "" ELSE "Failed to add channel for calendar"

\* initializeSharedCalendars(sharedCalendars, allEvents): the calendars replace
\* the pending ones, the node is started if there is none, and the
\* initialization runs at once if the node is ready and the status is up.
initializeSharedCalendars(calendars) ==
  \E created \in BOOLEAN, fails \in SUBSET Calendars :
    /\ wakuManagerRef' = (wakuManagerRef \/ created)
    /\ node' = [node EXCEPT !["A"] = @ \/ created]
    /\ UNCHANGED restVars
    /\ lightNodes' = [lightNodes EXCEPT !["A"] = IF ~wakuManagerRef /\ created THEN @ + 1 ELSE @]
    /\ IF nodeReady(created) /\ globalConnectionStatus \in {"connected", "minimal"}
         THEN performInitialization(calendars, fails)
         ELSE /\ pendingCalendars' = <<calendars>>
              /\ hookError' = IF ~wakuManagerRef /\ ~created
                                THEN "Failed to initialize" ELSE hookError
              /\ UNCHANGED <<channels, listeners, topic, connections,
                             globalConnectionStatus>>
    /\ last' = Did("initializeSharedCalendars", "A", "", NoMessage, FALSE,
                   hookError' # hookError /\ hookError' # "", FALSE)
    /\ UNCHANGED <<isConnected, processedMessageIds, lastProcessedTimestamp,
                   now, onEventAction, reportedStatus, startup>>

\* The effect on [globalConnectionStatus, pendingCalendars]: pending calendars
\* are initialized once the status is connected or minimal.
pendingEffect ==
  /\ pendingCalendars # Undefined
  /\ globalConnectionStatus \in {"connected", "minimal"}
  /\ \E fails \in SUBSET Calendars :
       /\ UNCHANGED wakuManagerRef
       /\ performInitialization(pendingCalendars[1], fails)
  /\ last' = Did("performInitialization", "A", "", NoMessage, FALSE,
                 hookError' # "", FALSE)
  /\ UNCHANGED <<node, isConnected, processedMessageIds, lastProcessedTimestamp,
                 now, onEventAction, reportedStatus, startup, lightNodes, restVars>>

\* The calendars the hook is given here have a share URL without a key, so
\* their channels are stored without one.
\* addSharedCalendar(calendar, events): nothing for a calendar that has a
\* connection; an error when initializeWakuNode is false; queued when the
\* status is disconnected; else the channel, the connection and the sharing.
addSharedCalendar(calendarId) ==
  \E created \in BOOLEAN, channelCreated \in BOOLEAN :
    LET known == calendarId \in DOMAIN connections
        ready == ~known /\ nodeReady(created)
        queues == ready /\ globalConnectionStatus = "disconnected"
        direct == ready /\ globalConnectionStatus # "disconnected"
        success == direct /\ (calendarId \in channels["A"] \/ channelCreated)
        updated == [c \in DOMAIN connections \cup {calendarId} |->
                      IF c = calendarId THEN globalConnectionStatus ELSE connections[c]]
    IN
    /\ wakuManagerRef' = (wakuManagerRef \/ (~known /\ created))
    /\ node' = [node EXCEPT !["A"] = @ \/ (~known /\ created)]
    /\ UNCHANGED restVars
    /\ lightNodes' =
         [lightNodes EXCEPT !["A"] = IF ~known /\ ~wakuManagerRef /\ created THEN @ + 1 ELSE @]
    /\ pendingCalendars' =
         IF ~queues THEN pendingCalendars
         ELSE IF pendingCalendars = Undefined THEN <<<<calendarId>>>>
         ELSE <<Append(pendingCalendars[1], calendarId)>>
    /\ hookError' =
         IF known THEN hookError
         ELSE IF ~nodeReady(created) THEN "Failed to initialize Waku node"
         ELSE IF direct /\ ~success THEN "Failed to add channel for calendar"
         ELSE hookError
    /\ channels' = [channels EXCEPT !["A"] = IF success THEN @ \cup {calendarId} ELSE @]
    /\ listeners' = [listeners EXCEPT !["A"] = IF success THEN @ \cup {calendarId} ELSE @]
    /\ connections' = IF success THEN updated ELSE connections
    /\ globalConnectionStatus' =
         IF success THEN updateGlobalStatus(updated) ELSE globalConnectionStatus
    /\ topic' = IF success
                  THEN [topic EXCEPT ![calendarId] = @ \o sharingMessages(calendarId)]
                  ELSE topic
    /\ last' = Did("addSharedCalendar", "A", calendarId, NoMessage, FALSE,
                   ~known /\ (~nodeReady(created) \/ (direct /\ ~success)), FALSE)
    /\ UNCHANGED <<isConnected, processedMessageIds, lastProcessedTimestamp,
                   now, onEventAction, reportedStatus, startup>>

\* The manager's waku:health listener with the hook's onConnectionStatus: the
\* global status and every connection take the reported status.
onConnectionStatus(status) ==
  /\ wakuManagerRef
  /\ isConnected' = [isConnected EXCEPT !["A"] = status \in {"sufficient", "minimal"}]
  /\ globalConnectionStatus' = connectionStatusOf(status)
  /\ connections' = [c \in DOMAIN connections |-> connectionStatusOf(status)]
  /\ reportedStatus' = <<connectionStatusOf(status)>>
  /\ last' = Did("health", "A", "", NoMessage, FALSE, FALSE, FALSE)
  /\ UNCHANGED <<node, channels, listeners, processedMessageIds,
                 lastProcessedTimestamp, now, topic, onEventAction,
                 wakuManagerRef, pendingCalendars, hookError, startup, lightNodes, restVars>>

\* removeSharedCalendar(calendarId): the manager forgets the channel, the hook
\* the connection, and the global status is recomputed.
removeSharedCalendar(calendarId) ==
  LET updated == [c \in DOMAIN connections \ {calendarId} |-> connections[c]] IN
  /\ channels' = [channels EXCEPT !["A"] = IF wakuManagerRef THEN @ \ {calendarId} ELSE @]
  /\ connections' = updated
  /\ globalConnectionStatus' = updateGlobalStatus(updated)
  /\ encryptionKey' =
       [encryptionKey EXCEPT !["A"] = IF wakuManagerRef THEN withKey(@, calendarId, Undefined) ELSE @]
  /\ last' = Did("removeSharedCalendar", "A", calendarId, NoMessage, FALSE, FALSE, FALSE)
  /\ UNCHANGED <<node, listeners, isConnected, processedMessageIds,
                 lastProcessedTimestamp, now, topic, onEventAction,
                 wakuManagerRef, pendingCalendars, hookError, reportedStatus,
                 startup, lightNodes, adding, calendarEvents, stoppedNodes>>

\* disconnectAll(): the manager is disconnected and dropped, the connections
\* are emptied, the global status is disconnected.  The manager the hook
\* creates next is a new object, which the stopped node's listener does not
\* write to.
disconnectAll ==
  /\ channels' = [channels EXCEPT !["A"] = IF wakuManagerRef THEN {} ELSE @]
  /\ processedMessageIds' =
       [processedMessageIds EXCEPT !["A"] = IF wakuManagerRef THEN <<>> ELSE @]
  /\ lastProcessedTimestamp' =
       [lastProcessedTimestamp EXCEPT !["A"] = IF wakuManagerRef THEN <<>> ELSE @]
  /\ node' = [node EXCEPT !["A"] = FALSE]
  /\ isConnected' = [isConnected EXCEPT !["A"] = IF wakuManagerRef THEN FALSE ELSE @]
  /\ encryptionKey' = [encryptionKey EXCEPT !["A"] = IF wakuManagerRef THEN <<>> ELSE @]
  /\ UNCHANGED <<adding, calendarEvents, stoppedNodes>>
  /\ lightNodes' = [lightNodes EXCEPT !["A"] = IF wakuManagerRef THEN @ - 1 ELSE @]
  /\ wakuManagerRef' = FALSE
  /\ connections' = <<>>
  /\ globalConnectionStatus' = "disconnected"
  /\ last' = Did("disconnectAll", "A", "", NoMessage, FALSE, FALSE, FALSE)
  /\ UNCHANGED <<listeners, now, topic, onEventAction, pendingCalendars, hookError,
                 reportedStatus, startup>>

\* The hook's forceFullSync(calendarId, calendar, events): false without a
\* manager; else resetSyncState and initializeSharing with the flag set.
hookForceFullSync(calendarId) ==
  /\ lastProcessedTimestamp' =
       IF wakuManagerRef
         THEN [lastProcessedTimestamp EXCEPT
                 !["A"] = [c \in DOMAIN @ \ {calendarId} |-> @[c]]]
         ELSE lastProcessedTimestamp
  /\ topic' =
       IF wakuManagerRef
         THEN sharedTopic(topic, "A", calendarId, descriptionOf(calendarId),
                          calendarEventsOf(AllEvents, calendarId), TRUE)
         ELSE topic
  /\ hookError' =
       IF /\ wakuManagerRef
          /\ sharingFails("A", calendarId, descriptionOf(calendarId),
                          calendarEventsOf(AllEvents, calendarId), TRUE)
         THEN "Not connected to Waku network" ELSE hookError
  /\ last' = Did("forceFullSync", "A", calendarId, NoMessage, FALSE,
                 hookError' # hookError, wakuManagerRef /\ isConnected["A"])
  /\ UNCHANGED <<node, channels, listeners, isConnected, processedMessageIds,
                 now, onEventAction, wakuManagerRef, connections,
                 globalConnectionStatus, pendingCalendars, reportedStatus,
                 startup, lightNodes, restVars>>

\* CalendarApp.handleEventUpdate(updatedEvent) with the stored originalEvent
\* and the calendars the application has marked shared: if either event's
\* calendar is shared it calls the hook's updateEvent(updatedEvent,
\* originalEvent), which takes one parameter and hands the manager's
\* updateEvent the updated event on its own calendar.
handleEventUpdate(updatedEvent, originalEvent, shared) ==
  LET calls == /\ updatedEvent.calendarId \in shared \/ originalEvent.calendarId \in shared
               /\ wakuManagerRef
      sends == calls /\ canSend("A", updatedEvent.calendarId)
      action == Action("UPDATE_EVENT", <<updatedEvent.id>>, <<updatedEvent>>,
                       Undefined, Undefined, Undefined, Undefined)
  IN
  /\ topic' = IF calls THEN published(topic, "A", updatedEvent.calendarId, action) ELSE topic
  /\ hookError' = IF calls /\ ~sends THEN "Not connected to Waku network" ELSE hookError
  /\ last' = Did("handleEventUpdate", "A", updatedEvent.calendarId,
                 IF sends THEN createMessage("A", action, now) ELSE NoMessage,
                 FALSE, calls /\ ~sends, sends)
  /\ UNCHANGED <<node, channels, listeners, isConnected, processedMessageIds,
                 lastProcessedTimestamp, now, onEventAction, wakuManagerRef,
                 connections, globalConnectionStatus, pendingCalendars,
                 reportedStatus, startup, lightNodes, restVars>>

(***************************************************************************)
(* SpecHook: the application calls the hook, the node reports its health,  *)
(* the pending effect runs.                                                 *)
(***************************************************************************)
HookInputs == {<<>>, <<"c1">>, <<"c1", "c2">>, <<"c2", "c1">>}

\* The event e1 moved from calendar c1 to calendar c2.
E1moved == Event("e1", "v1", 1, "c2")

\* The updates the application makes: <<updated, original>>, within c1 and
\* from c1 to c2.
Updates == {<<E1v2, E1>>, <<E1moved, E1>>}

Queued == IF pendingCalendars = Undefined THEN 0 ELSE Len(pendingCalendars[1])

\* The pending effect is due: it runs after the render that made it so, before
\* the application's next call.
EffectDue ==
  pendingCalendars # Undefined /\ globalConnectionStatus \in {"connected", "minimal"}

HookRequest ==
  /\ ~EffectDue
  /\ Published < MaxSends
  /\ \/ \E c \in Calendars : Queued < MaxPending /\ addSharedCalendar(c)
     \/ \E calendars \in HookInputs : initializeSharedCalendars(calendars)
     \/ \E c \in Calendars : hookForceFullSync(c)

HookHealth == \E status \in {"sufficient", "minimal", "none"} : onConnectionStatus(status)

HookRelease ==
  /\ ~EffectDue
  /\ (\E c \in Calendars : removeSharedCalendar(c)) \/ disconnectAll

NextHook == HookRequest \/ HookHealth \/ pendingEffect \/ HookRelease

SpecHook == Init /\ [][NextHook]_vars

\* An effect whose dependencies changed runs after the render: whenever the
\* pending effect is due again and again, it runs.
SpecHookFair == SpecHook /\ SF_vars(pendingEffect)

(***************************************************************************)
(* SpecMove: the application shares its calendars and updates an event,     *)
(* within its calendar or into another one.                                 *)
(***************************************************************************)
\* The UPDATE_EVENT messages published so far.
Updated ==
  Len(SelectSeq(topic["c1"], LAMBDA m : m.type = "UPDATE_EVENT"))
    + Len(SelectSeq(topic["c2"], LAMBDA m : m.type = "UPDATE_EVENT"))

MoveShare ==
  /\ Published < MaxShared
  /\ \E c \in Calendars : Queued < MaxPending /\ addSharedCalendar(c)

MoveUpdate ==
  /\ Updated < MaxSends
  /\ \E u \in Updates, shared \in SUBSET Calendars : handleEventUpdate(u[1], u[2], shared)

NextMove == MoveShare \/ HookHealth \/ pendingEffect \/ MoveUpdate

SpecMove == Init /\ [][NextMove]_vars

(***************************************************************************)
(* SpecUnshare: the application turns the sharing of its calendars on and   *)
(* off.                                                                     *)
(***************************************************************************)
\* handleCalendarShareToggle(calendarId, isSharing).  Turning sharing on ends
\* in the hook's addSharedCalendar.  Turning it off calls
\* multiWakuSync.unshareCalendar first, inside the try block; the object the
\* hook returns has no such member, so the call throws a TypeError before the
\* wait and before removeSharedCalendar, and the catch block shows the error
\* toast and returns: nothing is published and nothing is removed.
handleCalendarShareToggle(calendarId, isSharing) ==
  IF isSharing
    THEN addSharedCalendar(calendarId)
    ELSE /\ last' = Did("handleCalendarShareToggle", "A", calendarId, NoMessage,
                        FALSE, FALSE, FALSE)
         /\ UNCHANGED <<node, channels, listeners, isConnected, processedMessageIds,
                        lastProcessedTimestamp, now, topic, onEventAction,
                        hookVars, startup, lightNodes, restVars>>

UnshareToggle ==
  /\ Published < MaxShared
  /\ \E c \in Calendars, isSharing \in BOOLEAN :
       Queued < MaxPending /\ handleCalendarShareToggle(c, isSharing)

NextUnshare == UnshareToggle \/ HookHealth \/ pendingEffect

SpecUnshare == Init /\ [][NextUnshare]_vars

(***************************************************************************)
(* SpecStartup: start-up calls that overlap.  initializeWakuNode and        *)
(* initialize each test for a node, await createLightNode and then store    *)
(* what they created; a call is split at its await.  The hook's calls start *)
(* the node of "A", the direct initialize() calls that of "B".              *)
(***************************************************************************)
\* initializeWakuNode() up to its await: with a manager it returns at once,
\* without one it builds a manager whose initialize() awaits createLightNode.
initializeWakuNodeBegin(i) ==
  /\ startup[i] = "idle"
  /\ startup' = [startup EXCEPT
                   ![i] = IF wakuManagerRef THEN "returned" ELSE "initializeWakuNode"]
  /\ last' = Did("initializeWakuNode", "A", "", NoMessage, FALSE, FALSE,
                 wakuManagerRef /\ isConnected["A"])
  /\ UNCHANGED <<node, channels, listeners, isConnected, processedMessageIds,
                 lastProcessedTimestamp, now, topic, onEventAction, hookVars,
                 lightNodes, restVars>>

\* initializeWakuNode() from its await on: createLightNode has yielded a node
\* or thrown; on success the call's own, new manager becomes the hook's.
initializeWakuNodeEnd(i) ==
  \E created \in BOOLEAN :
    /\ startup[i] = "initializeWakuNode"
    /\ startup' = [startup EXCEPT ![i] = "returned"]
    /\ UNCHANGED restVars
    /\ lightNodes' = [lightNodes EXCEPT !["A"] = IF created THEN @ + 1 ELSE @]
    /\ wakuManagerRef' = (wakuManagerRef \/ created)
    /\ node' = [node EXCEPT !["A"] = @ \/ created]
    /\ channels' = [channels EXCEPT !["A"] = IF created THEN {} ELSE @]
    /\ isConnected' = [isConnected EXCEPT !["A"] = IF created THEN FALSE ELSE @]
    /\ processedMessageIds' = [processedMessageIds EXCEPT !["A"] = IF created THEN <<>> ELSE @]
    /\ lastProcessedTimestamp' =
         [lastProcessedTimestamp EXCEPT !["A"] = IF created THEN <<>> ELSE @]
    /\ hookError' = IF created THEN hookError ELSE "Failed to initialize"
    /\ last' = Did("initializeWakuNode", "A", "", NoMessage, FALSE, ~created, created)
    /\ UNCHANGED <<listeners, now, topic, onEventAction, connections,
                   globalConnectionStatus, pendingCalendars, reportedStatus>>

\* initialize() up to its await: true at once if there is a node.
initializeBegin(p, i) ==
  /\ startup[i] = "idle"
  /\ startup' = [startup EXCEPT ![i] = IF node[p] THEN "returned" ELSE "initialize"]
  /\ last' = Did("initialize", p, "", NoMessage, FALSE, FALSE, node[p])
  /\ UNCHANGED <<node, channels, listeners, isConnected, processedMessageIds,
                 lastProcessedTimestamp, now, topic, onEventAction, hookVars,
                 lightNodes, restVars>>

\* initialize() from its await on: this.node is assigned what createLightNode
\* yielded, whatever it held.
initializeEnd(p, i) ==
  \E created \in BOOLEAN :
    /\ startup[i] = "initialize"
    /\ startup' = [startup EXCEPT ![i] = "returned"]
    /\ UNCHANGED restVars
    /\ lightNodes' = [lightNodes EXCEPT ![p] = IF created THEN @ + 1 ELSE @]
    /\ node' = [node EXCEPT ![p] = @ \/ created]
    /\ last' = Did("initialize", p, "", NoMessage, FALSE, ~created, created)
    /\ UNCHANGED <<channels, listeners, isConnected, processedMessageIds,
                   lastProcessedTimestamp, now, topic, onEventAction, hookVars>>

StartupCalls ==
  \E i \in CallIds :
    \/ initializeWakuNodeBegin(i)
    \/ initializeWakuNodeEnd(i)
    \/ initializeBegin("B", i)
    \/ initializeEnd("B", i)

NextStartup == StartupCalls \/ HookHealth \/ health("B", "sufficient")

SpecStartup == Init /\ [][NextStartup]_vars

(***************************************************************************)
(* SpecAdd: calls of addCalendarChannel that overlap.  A call tests the     *)
(* node and the registry, awaits ReliableChannel.create and then attaches   *)
(* the listener and stores the channel; it is split at its await.           *)
(***************************************************************************)
\* addCalendarChannel(calendarId) up to its await: false and an error without
\* a node, true at once for an id that is in the registry.
addCalendarChannelBegin(p, calendarId, i) ==
  LET awaits == node[p] /\ calendarId \notin channels[p] IN
  /\ adding[i] = Undefined
  /\ adding' = [adding EXCEPT ![i] = IF awaits THEN <<[peer |-> p, calendarId |-> calendarId]>>
                                     ELSE Undefined]
  /\ last' = Did("addCalendarChannel", p, calendarId, NoMessage, FALSE, ~node[p],
                 node[p] /\ ~awaits)
  /\ UNCHANGED <<node, channels, listeners, isConnected, processedMessageIds,
                 lastProcessedTimestamp, now, topic, onEventAction, hookVars,
                 startup, lightNodes, encryptionKey, calendarEvents, stoppedNodes>>

\* addCalendarChannel(calendarId) from its await on: the channel that was
\* created gets its message-received listener and is stored under the id,
\* whatever the registry holds by now; a throw is reported.
addCalendarChannelEnd(i) ==
  \E created \in BOOLEAN :
    /\ adding[i] # Undefined
    /\ LET p == adding[i][1].peer
           calendarId == adding[i][1].calendarId
       IN /\ listeners' = [listeners EXCEPT ![p] = IF created THEN @ \cup {calendarId} ELSE @]
          /\ channels' = [channels EXCEPT ![p] = IF created THEN @ \cup {calendarId} ELSE @]
          /\ encryptionKey' =
               [encryptionKey EXCEPT ![p] = IF created THEN withKey(@, calendarId, Undefined) ELSE @]
          /\ last' = Did("addCalendarChannel", p, calendarId, NoMessage, FALSE,
                         ~created, created)
    /\ adding' = [adding EXCEPT ![i] = Undefined]
    /\ UNCHANGED <<node, isConnected, processedMessageIds, lastProcessedTimestamp,
                   now, topic, onEventAction, hookVars, startup, lightNodes,
                   calendarEvents, stoppedNodes>>

AddCalls ==
  \E i \in CallIds :
    \/ \E c \in Calendars : addCalendarChannelBegin("A", c, i)
    \/ addCalendarChannelEnd(i)

NextAdd == initialize("A") \/ AddCalls \/ SyncReceive

SpecAdd == Init /\ [][NextAdd]_vars

(***************************************************************************)
(* SpecStop: one manager that is set up, receives and sends, is             *)
(* disconnected and set up again, while the nodes it has stopped may still  *)
(* report their health.  A stopped node delivers no messages.               *)
(***************************************************************************)
StopReceive == node["A"] /\ SyncReceive

StopSend ==
  /\ Published < MaxSends
  /\ \/ createEvent("A", "c1", E1)
     \/ initializeSharing("A", "c1", "d", <<E1>>, FALSE)

StaleHealth == \E status \in {"sufficient", "minimal", "none"} : staleHealth("A", status)

NextStop == EchoSetup \/ StopReceive \/ StopSend \/ disconnect("A") \/ StaleHealth

SpecStop == Init /\ [][NextStop]_vars

(***************************************************************************)
(* SpecApp: the application's event handler, given the actions a remote     *)
(* peer's public operations produce, in any order and any number of times.  *)
(***************************************************************************)
\* A faulty variant: a create is appended without looking for its id.
appliedAppends(evts, action) ==
  CASE action.type = "CREATE_EVENT" /\ action.event # Undefined ->
         Append(evts, action.event[1])
    [] action.type = "UPDATE_EVENT" /\ action.event # Undefined ->
         [k \in 1..Len(evts) |->
            IF <<evts[k].id>> = action.eventId THEN action.event[1] ELSE evts[k]]
    [] action.type = "DELETE_EVENT" /\ action.eventId # Undefined ->
         SelectSeq(evts, LAMBDA e : e.id # action.eventId[1])
    [] action.type = "SYNC_EVENTS" /\ action.events # Undefined ->
         evts \o SelectSeq(action.events[1],
                           LAMBDA e : \A k \in 1..Len(evts) : evts[k].id # e.id)
    [] OTHER -> evts

\* The list of events after the handler set with setEventHandler has run on an
\* action: a create is appended unless its id is there; an update replaces
\* the events whose id is action.eventId by action.event; a delete filters the
\* id out; a bulk sync appends those of its events whose id was not there.
\* The action's dates are Date objects already.
applied(evts, action) ==
  CASE action.type = "CREATE_EVENT" /\ action.event # Undefined ->
         IF \E k \in 1..Len(evts) : evts[k].id = action.event[1].id
           THEN evts
           ELSE Append(evts, action.event[1])
    [] action.type = "UPDATE_EVENT" /\ action.event # Undefined ->
         [k \in 1..Len(evts) |->
            IF <<evts[k].id>> = action.eventId THEN action.event[1] ELSE evts[k]]
    [] action.type = "DELETE_EVENT" /\ action.eventId # Undefined ->
         SelectSeq(evts, LAMBDA e : e.id # action.eventId[1])
    [] action.type = "SYNC_EVENTS" /\ action.events # Undefined ->
         evts \o SelectSeq(action.events[1],
                           LAMBDA e : \A k \in 1..Len(evts) : evts[k].id # e.id)
    [] OTHER -> evts

\* The handler called with the action built from a delivered message.
eventHandler(decoded) ==
  /\ calendarEvents' = applied(calendarEvents, actionOf(decoded))
  /\ last' = Did("eventHandler", "A", "", decoded, TRUE, FALSE, FALSE)
  /\ UNCHANGED <<node, channels, listeners, isConnected, processedMessageIds,
                 lastProcessedTimestamp, now, topic, onEventAction, hookVars,
                 startup, lightNodes, encryptionKey, adding, stoppedNodes>>

\* What createEvent, updateEvent, deleteEvent, syncEvents,
\* syncCalendarDescription and unshareCalendar of the remote peer put on the
\* wire for its events.
AppMessages ==
  {createMessage("B", action, 1) :
     action \in TripActions \cup
       {Action("CREATE_EVENT", <<e.id>>, <<e>>, Undefined, Undefined, Undefined, Undefined) :
          e \in {E1v2, E2, Other}} \cup
       {Action("UPDATE_EVENT", <<e.id>>, <<e>>, Undefined, Undefined, Undefined, Undefined) :
          e \in {E1, E2}} \cup
       {Action("DELETE_EVENT", <<"e2">>, Undefined, Undefined, Undefined, Undefined, Undefined),
        syncEventsAction(<<E1v2, Other>>)}}

NextApp == \E m \in AppMessages : eventHandler(m)

SpecApp == Init /\ [][NextApp]_vars

(***************************************************************************)
(* SpecRemove: one manager whose channel is added and removed while it      *)
(* sends and while a remote peer's creates arrive.                          *)
(***************************************************************************)
RemoveSend == Published < MaxSends /\ createEvent("A", "c1", E1)

NextRemove ==
  EchoSetup \/ removeCalendarChannel("A", "c1") \/ RemoveSend \/ SyncReceive

SpecRemove == Init /\ [][NextRemove]_vars

(***************************************************************************)
(* Properties.                                                              *)
(***************************************************************************)
Range(seq) == {seq[i] : i \in 1..Len(seq)}

\* The identities in p's ledger.
Ledger(p) == Range(processedMessageIds[p])

\* The identity (senderId, timestamp, type, eventId) of a call of the callback.
IdentityOf(call) ==
  <<call.action.senderId, call.action.timestamp, call.action.type, call.action.eventId>>

\* The last operation was a delivery to p.
Delivered(p) == last.op = "handleIncomingMessage" /\ last.peer = p

\* C1 (SpecLedger): the callback is invoked at most once per message identity
\* (senderId, timestamp, type, eventId), whatever is delivered and however
\* often.  The ledger's cleanup forgets identities, so this does not hold.
C1_AtMostOncePerIdentity ==
  \A x \in BagToSet(onEventAction["A"]) :
    /\ CopiesIn(x, onEventAction["A"]) <= 1
    /\ \A y \in BagToSet(onEventAction["A"]) : IdentityOf(y) = IdentityOf(x) => y = x

\* C2 (Spec): when the message delivered last is delivered again on the same
\* channel, the second delivery does not invoke the callback, whatever its type.
C2_SecondDeliveryNotRouted ==
  [][\A m \in InboundMessages :
       (/\ Delivered("A")
        /\ last.calendarId = "c1"
        /\ last.message = m
        /\ handleIncomingMessage("A", m, "c1"))
       => (onEventAction' = onEventAction /\ ~last'.invoked)]_vars

\* A message admitted by its latest delivery's predecessor and rejected now:
\* the ledger ends with its identity, the callback has seen it once, the last
\* delivery did not invoke the callback.
C2_Witness ==
  /\ Delivered("A")
  /\ last.message \in InboundMessages
  /\ last.message.type = "SYNC_CALENDAR_DESCRIPTION"
  /\ ~last.invoked
  /\ processedMessageIds["A"] = <<messageId(last.message)>>
  /\ CopiesIn(Call("c1", last.message), onEventAction["A"]) = 1

\* C3 (SpecEcho): a message carrying the manager's own senderId is never
\* admitted, whatever its type and timestamp: no published message would be
\* routed if echoed, no echo delivered was routed, and the callback has never
\* seen an action of the manager's own.
C3_OwnNeverAdmitted ==
  /\ \A c \in Calendars : \A i \in 1..Len(topic[c]) :
       topic[c][i].senderId = senderId("A") => outcome("A", topic[c][i], c) = "own"
  /\ (Delivered("A") /\ last.message.senderId = senderId("A")) => ~last.invoked
  /\ \A x \in BagToSet(onEventAction["A"]) : x.action.senderId # senderId("A")
  /\ processedMessageIds["A"] = <<>>

\* The manager has just been handed its own bulk sync, published at a later
\* time than its own create, and has not routed it.
C3_Witness ==
  /\ Delivered("A")
  /\ last.message.senderId = senderId("A")
  /\ last.message.type = "SYNC_EVENTS"
  /\ last.message.timestamp > 1
  /\ ~last.invoked
  /\ \E i \in 1..Len(topic["c1"]) : topic["c1"][i].type = "CREATE_EVENT"

\* The watermark of calendar c1 at manager A.
Watermark == getLastProcessedTimestamp("A", "c1")

\* C4 (SpecLedger): a create, update or delete whose timestamp is at or below
\* the calendar's watermark is discarded: the handler would not route one of
\* any of the three types, a delivery of one changes neither the callback's
\* calls nor the sync state, and so the creates in the ledger are in
\* increasing order of timestamp.
C4_StaleMutationDiscarded ==
  /\ [](\A type \in MutationTypes, ts \in Timestamps :
          ts <= Watermark => outcome("A", MessageOf(type, ts, "B"), "c1") # "applied")
  /\ [](\A i, j \in 1..Len(processedMessageIds["A"]) :
          (/\ i < j
           /\ processedMessageIds["A"][i][3] = "CREATE_EVENT"
           /\ processedMessageIds["A"][j][3] = "CREATE_EVENT")
          => processedMessageIds["A"][i][2] < processedMessageIds["A"][j][2])
  /\ [][\A m \in LedgerMessages :
          (/\ m.type \in MutationTypes
           /\ m.timestamp <= Watermark
           /\ handleIncomingMessage("A", m, "c1"))
          => (/\ ~last'.invoked
              /\ UNCHANGED <<onEventAction, processedMessageIds, lastProcessedTimestamp>>)]_vars

\* Creates stamped 1, 3, 2 delivered in that order: the first two were admitted
\* in order, the third has just been rejected.
C4_Witness ==
  /\ processedMessageIds["A"] =
       <<messageId(MessageOf("CREATE_EVENT", 1, "B")),
         messageId(MessageOf("CREATE_EVENT", 3, "B"))>>
  /\ Delivered("A")
  /\ last.message = MessageOf("CREATE_EVENT", 2, "B")
  /\ ~last.invoked
  /\ Watermark = 3
  /\ ~BagIn(Call("c1", MessageOf("CREATE_EVENT", 2, "B")), onEventAction["A"])

\* C5 as stated (SpecWatermark): no step lowers the watermark of any calendar.
C5_NeverDecreases ==
  [][\A c \in Calendars :
       getLastProcessedTimestamp("A", c)' >= getLastProcessedTimestamp("A", c)]_vars

\* C5, amended (SpecWatermark): a step lowers the watermark of a calendar only
\* if it is resetSyncState for that calendar or disconnect.
C5_DecreasesOnlyOnReset ==
  [][\A c \in Calendars :
       \/ getLastProcessedTimestamp("A", c)' >= getLastProcessedTimestamp("A", c)
       \/ last'.op = "disconnect"
       \/ last'.op = "resetSyncState" /\ last'.calendarId = c]_vars

\* The watermark of c1 has moved from 1 to 2 by two admitted creates; c2 has
\* none.
C5_Witness ==
  /\ Delivered("A")
  /\ last.invoked
  /\ last.message = MessageOf("CREATE_EVENT", 2, "B")
  /\ lastProcessedTimestamp["A"] = [c \in {"c1"} |-> 2]
  /\ BagIn(Call("c1", MessageOf("CREATE_EVENT", 1, "B")), onEventAction["A"])

\* C6 (SpecLedger): a bulk sync from the remote peer stamped at or below the
\* watermark, its identity not in the ledger, is admitted: the callback is
\* invoked once more, with the events the message carries.
C6_BulkSyncExempt ==
  [][\A m \in LedgerMessages :
       (/\ m.type = "SYNC_EVENTS"
        /\ m.timestamp <= Watermark
        /\ messageId(m) \notin Ledger("A")
        /\ handleIncomingMessage("A", m, "c1"))
       => (/\ last'.invoked
           /\ onEventAction' =
                [onEventAction EXCEPT ![("A")] = @ (+) SetToBag({Call("c1", m)})]
           /\ Call("c1", m).action.events = <<<<Event("e1", "v1", 1, "c1")>>>>)]_vars

\* A bulk sync stamped 1 has just been admitted under a watermark of 2.
C6_Witness ==
  /\ Delivered("A")
  /\ last.message = MessageOf("SYNC_EVENTS", 1, "B")
  /\ last.invoked
  /\ Watermark = 2
  /\ processedMessageIds["A"] =
       <<messageId(MessageOf("CREATE_EVENT", 2, "B")),
         messageId(MessageOf("SYNC_EVENTS", 1, "B"))>>

\* C7 (SpecNetFair): every mutation A has published, once B listens on the
\* calendar and the transport keeps delivering it, is eventually handed to B's
\* callback.  A mutation that arrives after a newer one is dropped at every
\* delivery, so this does not hold.
C7_EventuallyRouted ==
  \A m \in MutationEnvelopes :
    ((\E i \in 1..Len(topic["c1"]) : topic["c1"][i] = m) /\ "c1" \in listeners["B"])
      ~> BagIn(Call("c1", m), onEventAction["B"])

\* The message A's updateEvent publishes for the revised e1 at time ts.
UpdateMessage(ts) ==
  createMessage("A",
    Action("UPDATE_EVENT", <<"e1">>, <<E1v2>>, Undefined, Undefined, Undefined, Undefined),
    ts)

\* The calls of B's callback that carry the update of e1.
UpdateCalls ==
  {x \in BagToSet(onEventAction["B"]) : x.action.type = "UPDATE_EVENT"}

\* C8 (SpecE2E): when A, connected, with a channel and no watermark, shares a
\* calendar with n > 0 events, one SYNC_EVENTS message with all n events is
\* published (after the description, if there is one); B admits a bulk sync on
\* the topic while its ledger is empty; and the later update of one of the
\* events is routed by B at its first delivery and never again, with the
\* updated event.
C8_EndToEnd ==
  /\ [][\A description \in {"", "d"}, events \in ShareInputs, forceFullSync \in BOOLEAN :
          (/\ canSend("A", "c1")
           /\ "c1" \notin DOMAIN lastProcessedTimestamp["A"]
           /\ Len(calendarEventsOf(events, "c1")) > 0
           /\ initializeSharing("A", "c1", description, events, forceFullSync))
          => topic'["c1"] =
               topic["c1"]
               \o (IF description = "" THEN <<>>
                   ELSE <<createMessage("A",
                            syncCalendarDescriptionAction("c1", description), now)>>)
               \o <<createMessage("A",
                      syncEventsAction(calendarEventsOf(events, "c1")), now)>>]_vars
  /\ [](\A i \in 1..Len(topic["c1"]) :
          (topic["c1"][i].type = "SYNC_EVENTS" /\ processedMessageIds["B"] = <<>>)
          => outcome("B", topic["c1"][i], "c1") = "applied")
  /\ [](\A x \in UpdateCalls :
          /\ CopiesIn(x, onEventAction["B"]) = 1
          /\ UpdateCalls = {x}
          /\ x.action.event = <<E1v2>>)
  /\ []((Delivered("B") /\ last.message.type = "UPDATE_EVENT") => UpdateCalls # {})

\* B has routed the bulk sync of both events of c1, then the update, and has
\* just rejected a second delivery of the update.
C8_Witness ==
  /\ Delivered("B")
  /\ last.message.type = "UPDATE_EVENT"
  /\ ~last.invoked
  /\ \E ts \in Timestamps :
       /\ last.message = UpdateMessage(ts)
       /\ CopiesIn(Call("c1", UpdateMessage(ts)), onEventAction["B"]) = 1
  /\ \E x \in BagToSet(onEventAction["B"]) :
       /\ x.action.type = "SYNC_EVENTS"
       /\ x.action.events = <<<<E1, E2>>>>
       /\ x.action.timestamp < last.message.timestamp

\* C9 (SpecLedger): after every delivery the ledger holds at most
\* maxProcessedMessages identities, and what an admitting delivery leaves in it
\* is the most recent identities: the tail of the ledger with the new identity
\* appended, all of it but the first trimCount at most.
C9_BoundedLedger ==
  /\ [](Len(processedMessageIds["A"]) <= maxProcessedMessages)
  /\ []((Delivered("A") /\ last.invoked) =>
          processedMessageIds["A"][Len(processedMessageIds["A"])] = messageId(last.message))
  /\ [][\A m \in LedgerMessages :
          (outcome("A", m, "c1") = "applied" /\ handleIncomingMessage("A", m, "c1"))
          => LET inserted == Append(processedMessageIds["A"], messageId(m))
                 kept == Len(processedMessageIds'["A"])
             IN /\ kept >= Len(inserted) - trimCount
                /\ processedMessageIds'["A"] =
                     SubSeq(inserted, Len(inserted) - kept + 1, Len(inserted))]_vars

\* One more identity than the cap has been admitted, and the ledger is back
\* under the cap with the newest identity in it.
C9_Witness ==
  /\ Delivered("A")
  /\ last.invoked
  /\ Routed("A") = maxProcessedMessages + 1
  /\ Len(processedMessageIds["A"]) = maxProcessedMessages + 1 - trimCount
  /\ messageId(last.message) \in Ledger("A")

\* C10 (SpecLedger): the delivery whose insert takes the ledger over the cap
\* removes, in that same step, exactly the first trimCount identities in
\* insertion order; an insert that stays within the cap removes nothing, and
\* nothing but an admitting delivery changes the ledger.
C10_EvictsOldestOnInsert ==
  [][/\ \A m \in LedgerMessages :
          handleIncomingMessage("A", m, "c1")
          => LET inserted == Append(processedMessageIds["A"], messageId(m)) IN
             processedMessageIds'["A"] =
               IF outcome("A", m, "c1") # "applied" THEN processedMessageIds["A"]
               ELSE IF Len(inserted) > maxProcessedMessages
                 THEN SubSeq(inserted, trimCount + 1, Len(inserted))
                 ELSE inserted
     /\ last'.op # "handleIncomingMessage" => UNCHANGED processedMessageIds]_vars

\* Creates stamped 1, 2, 3 and bulk syncs stamped 1, 2 were admitted in that
\* order: the fifth insert has just evicted the oldest identity, the create
\* stamped 1.
C10_Witness ==
  /\ Delivered("A")
  /\ last.invoked
  /\ last.message = MessageOf("SYNC_EVENTS", 2, "B")
  /\ BagIn(Call("c1", MessageOf("CREATE_EVENT", 1, "B")), onEventAction["A"])
  /\ processedMessageIds["A"] =
       <<messageId(MessageOf("CREATE_EVENT", 2, "B")),
         messageId(MessageOf("CREATE_EVENT", 3, "B")),
         messageId(MessageOf("SYNC_EVENTS", 1, "B")),
         messageId(MessageOf("SYNC_EVENTS", 2, "B"))>>

\* What a step has appended to the topic of c1.
NewOnTopic == SubSeq(topic'["c1"], Len(topic["c1"]) + 1, Len(topic'["c1"]))

\* The events a sharing of c1 is to carry: every event of c1 on a full sync
\* (forced, or no watermark), those dated after the watermark otherwise.
Selected(events, forceFullSync) ==
  LET mine == SelectSeq(events, LAMBDA e : e.calendarId = "c1") IN
  IF forceFullSync \/ "c1" \notin DOMAIN lastProcessedTimestamp["A"]
    THEN mine
    ELSE SelectSeq(mine, LAMBDA e : e.date > Watermark)

\* The bulk syncs a sharing of c1 is to publish: one with the selected events,
\* none when there are none.
SelectedSync(events, forceFullSync) ==
  IF Len(Selected(events, forceFullSync)) > 0
    THEN <<createMessage("A", syncEventsAction(Selected(events, forceFullSync)), now)>>
    ELSE <<>>

\* C11 as stated (SpecSync): whenever the manager is connected,
\* initializeSharing publishes one SYNC_EVENTS with the selected events (all of
\* the calendar's on a full sync, those newer than the watermark otherwise) and
\* none when the selection is empty.
C11_SyncWhenConnected ==
  [][\A description \in {"", "d"}, events \in ShareInputs, forceFullSync \in BOOLEAN :
       (/\ last'.op = "initializeSharing"
        /\ isConnected["A"]
        /\ initializeSharing("A", "c1", description, events, forceFullSync))
       => SelectSeq(NewOnTopic, LAMBDA m : m.type = "SYNC_EVENTS")
            = SelectedSync(events, forceFullSync)]_vars

\* C11, amended (SpecSync): the same, for a connected manager that holds a
\* channel for the calendar.
C11_SyncWhenConnectedWithChannel ==
  [][\A description \in {"", "d"}, events \in ShareInputs, forceFullSync \in BOOLEAN :
       (/\ last'.op = "initializeSharing"
        /\ isConnected["A"]
        /\ "c1" \in channels["A"]
        /\ initializeSharing("A", "c1", description, events, forceFullSync))
       => SelectSeq(NewOnTopic, LAMBDA m : m.type = "SYNC_EVENTS")
            = SelectedSync(events, forceFullSync)]_vars

\* An incremental sync under a watermark of 1 has just published the one event
\* of c1 dated after it, and not the event dated 1.
C11_Witness ==
  /\ last.op = "initializeSharing"
  /\ last.returned
  /\ ~last.error
  /\ Watermark = 1
  /\ Len(topic["c1"]) > 0
  /\ topic["c1"][Len(topic["c1"])] = createMessage("A", syncEventsAction(<<E2>>), now)

\* C12 as stated (SpecSync): whenever the manager is connected and the calendar
\* has a description, what initializeSharing publishes starts with the
\* SYNC_CALENDAR_DESCRIPTION of the calendar, and only bulk syncs follow it.
C12_DescriptionFirst ==
  [][\A events \in ShareInputs, forceFullSync \in BOOLEAN :
       (/\ last'.op = "initializeSharing"
        /\ isConnected["A"]
        /\ initializeSharing("A", "c1", "d", events, forceFullSync))
       => (/\ Len(NewOnTopic) >= 1
           /\ NewOnTopic[1] =
                createMessage("A", syncCalendarDescriptionAction("c1", "d"), now)
           /\ \A i \in 2..Len(NewOnTopic) : NewOnTopic[i].type = "SYNC_EVENTS")]_vars

\* C12, amended (SpecSync): the same, for a connected manager that holds a
\* channel for the calendar; the bulk sync, if any, is the one selected.
C12_DescriptionFirstWithChannel ==
  [][\A events \in ShareInputs, forceFullSync \in BOOLEAN :
       (/\ last'.op = "initializeSharing"
        /\ isConnected["A"]
        /\ "c1" \in channels["A"]
        /\ initializeSharing("A", "c1", "d", events, forceFullSync))
       => NewOnTopic =
            <<createMessage("A", syncCalendarDescriptionAction("c1", "d"), now)>>
            \o SelectedSync(events, forceFullSync)]_vars

\* An incremental sharing with a description under a watermark of 1: the
\* description went out first, the one newer event after it.
C12_Witness ==
  /\ last.op = "initializeSharing"
  /\ last.returned
  /\ Watermark = 1
  /\ topic["c1"] =
       <<createMessage("A", syncCalendarDescriptionAction("c1", "d"), now),
         createMessage("A", syncEventsAction(<<E2>>), now)>>

\* The message type each single-message operation publishes.
TypeOfOperation ==
  [createEvent |-> "CREATE_EVENT", updateEvent |-> "UPDATE_EVENT",
   deleteEvent |-> "DELETE_EVENT",
   syncCalendarDescription |-> "SYNC_CALENDAR_DESCRIPTION",
   unshareCalendar |-> "UNSHARE_CALENDAR"]

C14_SharingGuarded ==
  [][(/\ last'.op = "initializeSharing"
      /\ ~("c1" \in channels["A"] /\ isConnected["A"]))
     => (~last'.returned /\ topic' = topic)]_vars

\* The one bulk sync a full sync of c1 publishes: every given event of c1.
FullSync(events) ==
  IF Len(calendarEventsOf(events, "c1")) > 0
    THEN <<createMessage("A", syncEventsAction(calendarEventsOf(events, "c1")), now)>>
    ELSE <<>>

\* C15 (SpecSync): canUseIncrementalSync holds exactly when the calendar has a
\* watermark; a resetSyncState leaves it false; while it is false an
\* initializeSharing that does not ask for a full sync performs one all the
\* same; and only an admitted mutation makes it true again.
C15_IncrementalNeedsWatermark ==
  /\ [](canUseIncrementalSync("A", "c1") <=> Watermark > 0)
  /\ [][(last'.op = "resetSyncState" /\ last'.calendarId = "c1")
        => ~canUseIncrementalSync("A", "c1")']_vars
  /\ [][\A description \in {"", "d"}, events \in ShareInputs :
          (/\ last'.op = "initializeSharing"
           /\ ~canUseIncrementalSync("A", "c1")
           /\ isConnected["A"]
           /\ "c1" \in channels["A"]
           /\ initializeSharing("A", "c1", description, events, FALSE))
          => SelectSeq(NewOnTopic, LAMBDA m : m.type = "SYNC_EVENTS")
               = FullSync(events)]_vars
  /\ [][(~canUseIncrementalSync("A", "c1") /\ canUseIncrementalSync("A", "c1")')
        => /\ last'.op = "handleIncomingMessage"
           /\ last'.calendarId = "c1"
           /\ last'.invoked
           /\ last'.message.type \in MutationTypes]_vars

\* A mutation was admitted (its identity is in the ledger), the sync state was
\* reset, and the sharing that followed sent both events of c1, the one dated
\* at the old watermark included.
C15_Witness ==
  /\ last.op = "initializeSharing"
  /\ last.returned
  /\ ~canUseIncrementalSync("A", "c1")
  /\ Len(processedMessageIds["A"]) > 0
  /\ Len(topic["c1"]) > 0
  /\ topic["c1"][Len(topic["c1"])] = createMessage("A", syncEventsAction(<<E1, E2>>), now)

\* C16 (SpecWatermark): the registry holds one channel per calendar id: an
\* addCalendarChannel for an id that has a channel returns true without an
\* error and changes neither the registry, the listeners, the ledger nor the
\* watermarks; for a new id it adds at most that id.
C16_OneChannelPerCalendar ==
  [][last'.op = "addCalendarChannel" =>
       IF last'.calendarId \in channels["A"]
         THEN /\ last'.returned
              /\ ~last'.error
              /\ UNCHANGED <<node, channels, listeners, isConnected,
                             processedMessageIds, lastProcessedTimestamp,
                             topic, onEventAction>>
         ELSE /\ channels'["A"] \in {channels["A"], channels["A"] \cup {last'.calendarId}}
              /\ last'.returned <=> last'.calendarId \in channels'["A"]
              /\ UNCHANGED <<processedMessageIds, lastProcessedTimestamp>>]_vars

\* The channel of c1 has carried a mutation (the ledger and the watermark are
\* set) and a further addCalendarChannel("c1") has just returned true.
C16_Witness ==
  /\ last.op = "addCalendarChannel"
  /\ last.calendarId = "c1"
  /\ last.returned
  /\ channels["A"] = {"c1"}
  /\ Len(processedMessageIds["A"]) > 0
  /\ Watermark > 0

\* The calendars on the hook's pending list.
PendingSet == IF pendingCalendars = Undefined THEN {} ELSE Range(pendingCalendars[1])

\* C17 (SpecHook): a request to share a calendar made while the node is
\* started and not yet connected is queued and not answered with an error:
\* the requested calendars are pending afterwards, and so is every calendar
\* that was pending before.  addSharedCalendar with a started, disconnected
\* node sets the error instead, so this does not hold.
C17_QueuedNotFailed ==
  [][/\ \A c \in Calendars :
          (/\ wakuManagerRef
           /\ ~isConnected["A"]
           /\ c \notin DOMAIN connections
           /\ addSharedCalendar(c))
          => (/\ PendingSet \cup {c} \subseteq PendingSet'
              /\ ~last'.error
              /\ hookError' = hookError)
     /\ \A calendars \in HookInputs :
          (/\ wakuManagerRef
           /\ ~isConnected["A"]
           /\ initializeSharedCalendars(calendars))
          => (/\ PendingSet \cup Range(calendars) \subseteq PendingSet'
              /\ ~last'.error
              /\ hookError' = hookError)]_vars

\* The global status the specification gives a set of channel states:
\* disconnected for none or all disconnected, connected for all connected,
\* minimal otherwise.
Aggregated(conns) ==
  IF \A c \in DOMAIN conns : conns[c] = "disconnected" THEN "disconnected"
  ELSE IF \A c \in DOMAIN conns : conns[c] = "connected" THEN "connected"
  ELSE "minimal"

\* C19 (SpecHook): with no channel and no connection the global status is
\* disconnected.  onConnectionStatus sets the reported status whatever the
\* connections are, so this does not hold.
C19_NoChannelsDisconnected ==
  (channels["A"] = {} /\ DOMAIN connections = {})
    => globalConnectionStatus = "disconnected"

\* C20 (SpecHook): with at least one connection the global status is the
\* aggregate of the connections' states.  updateGlobalStatus counts minimal
\* connections as connected, so this does not hold.
C20_StatusIsAggregate ==
  DOMAIN connections # {} => globalConnectionStatus = Aggregated(connections)

\* C18 (SpecHookFair): while the node stays connected, calendars on the pending
\* list are eventually initialized and the list emptied.  A calendar queued
\* while the global status is disconnected and the node connected waits for
\* the next health event, so this does not hold.
C18_PendingDrained ==
  (isConnected["A"] /\ pendingCalendars # Undefined)
    ~> (pendingCalendars = Undefined \/ ~isConnected["A"])

\* The connection state the transport's reports give every channel: the last
\* status reported, disconnected when none was.
Reported == IF reportedStatus = Undefined THEN "disconnected" ELSE reportedStatus[1]

\* C21 (SpecHook): the recorded state of every connection is the last status
\* the transport reported.  A connection is created with the global status,
\* which updateGlobalStatus may have set to a value that was never reported,
\* so this does not hold.
C21_StateIsReported ==
  \A c \in DOMAIN connections : connections[c] = Reported

\* C22 (SpecStartup): at most one light node is started and running per
\* engine, however the start-up calls interleave.  Two calls that both test
\* for a node before either has created one create a node each, so this does
\* not hold.
C22_OneNode == \A p \in Peers : lightNodes[p] <= 1

\* C23 (SpecRemove): once removeCalendarChannel has removed a calendar's
\* channel, a send for it publishes nothing and returns false, and a message
\* arriving on its topic is neither recorded nor delivered to onEventAction.
\* The channel's listener stays attached and handleIncomingMessage does not
\* consult the registry, so the second half does not hold.
C23_RemovedChannelDetached ==
  [][/\ (last'.op = "removeCalendarChannel") => last'.calendarId \notin channels'["A"]
     /\ (last'.op = "createEvent" /\ "c1" \notin channels["A"])
          => (~last'.returned /\ topic' = topic)
     /\ (last'.op = "handleIncomingMessage" /\ last'.calendarId \notin channels["A"])
          => (/\ ~last'.invoked
              /\ UNCHANGED <<processedMessageIds, lastProcessedTimestamp,
                             onEventAction>>)]_vars

\* C24 (SpecMove): an update that moves an event from one shared calendar to
\* another publishes a DELETE_EVENT on the origin's channel and a CREATE_EVENT
\* on the destination's, and no UPDATE_EVENT.  The hook's updateEvent ignores
\* the original event and publishes one UPDATE_EVENT on the destination's
\* channel, so this does not hold.
C24_MoveIsDeleteThenCreate ==
  [][(/\ last'.op = "handleEventUpdate"
      /\ {"c1", "c2"} \subseteq channels["A"]
      /\ isConnected["A"]
      /\ handleEventUpdate(E1moved, E1, Calendars))
     => (/\ topic'["c1"] =
              Append(topic["c1"],
                     createMessage("A", Action("DELETE_EVENT", <<"e1">>, Undefined,
                                               Undefined, Undefined, Undefined, Undefined),
                                   now))
         /\ topic'["c2"] =
              Append(topic["c2"],
                     createMessage("A", Action("CREATE_EVENT", <<"e1">>, <<E1moved>>,
                                               Undefined, Undefined, Undefined, Undefined),
                                   now)))]_vars

\* C25 (SpecEcho): an operation on a calendar that has no channel publishes
\* nothing, changes no state of the manager and does not invoke the error
\* callback.  sendEventAction reports the missing channel through onError, so
\* this does not hold.
C25_AbsentChannelSilent ==
  [][(/\ last'.op \in DOMAIN TypeOfOperation \cup {"syncEvents", "initializeSharing"}
      /\ last'.calendarId \notin channels[last'.peer]
      /\ isConnected[last'.peer])
     => (/\ ~last'.error
         /\ UNCHANGED <<node, channels, listeners, isConnected, processedMessageIds,
                        lastProcessedTimestamp, topic, onEventAction>>)]_vars

\* The messages whose payload cannot be decoded or parsed.
Malformed(m) == decodeThrows(m) \/ m.eventData = NotJson \/ m.eventsData = NotJson

\* The handler reaches the decode or parse that fails: the payload is not a
\* message at all, or the message is not dropped before its payload is parsed.
FailsIn(p, m, calendarId) ==
  \/ decodeThrows(m)
  \/ /\ m.senderId # senderId(p)
     /\ messageId(m) \notin Ledger(p)
     /\ (m.timestamp > getLastProcessedTimestamp(p, calendarId) \/ m.type = "SYNC_EVENTS")

\* C26 (Spec): a malformed inbound message drops only that message.  Handling it
\* never invokes onEventAction and leaves the ledger, every watermark and the
\* rest of the manager's state as they were; the handler reads nothing else, so
\* every later message is handled as if the malformed one had never arrived.
\* When the decode or the parse is reached and fails, the error callback is
\* invoked.
C26_MalformedDropsOnlyItself ==
  [][(last'.op = "handleIncomingMessage" /\ Malformed(last'.message))
     => (/\ ~last'.invoked
         /\ UNCHANGED <<node, channels, listeners, isConnected, processedMessageIds,
                        lastProcessedTimestamp, topic, onEventAction>>
         /\ FailsIn(last'.peer, last'.message, last'.calendarId) => last'.error)]_vars

\* A message whose event payload does not parse has just been reported, at a
\* manager that already holds a ledger entry and a watermark.
C26_Witness ==
  /\ last.op = "handleIncomingMessage"
  /\ last.message.eventData = NotJson
  /\ last.error
  /\ ~last.invoked
  /\ Ledger("A") # {}
  /\ getLastProcessedTimestamp("A", "c1") = 1

\* The fields of a delivered action that were given to sendEventAction.
Given(action) ==
  Action(action.type, action.eventId, action.event, action.events,
         action.calendarId, action.description, action.calendarName)

\* C27 (SpecTrip): every action A hands to sendEventAction reaches B's callback
\* with every field it was given, the same value in each.  calendarName is not
\* put into the message, so an unshare arrives without it.
C27_RoundTrip ==
  [][\A action \in TripActions :
       (/\ last'.op = "handleIncomingMessage"
        /\ last'.peer = "B"
        /\ last'.invoked
        /\ last'.message = createMessage("A", action, last'.message.timestamp))
       => /\ BagIn(Call("c1", last'.message), onEventAction'["B"])
          /\ Given(actionOf(last'.message)) = action]_vars

\* The unshare notices delivered to the callback of peer p.
Unshares(p) ==
  {call \in BagToSet(onEventAction[p]) : call.action.type = "UNSHARE_CALENDAR"}

\* C29 (SpecTrip): the unshare notice B's callback receives carries the
\* calendar id and the display name A passed to unshareCalendar.
C29_UnshareCarriesIdAndName ==
  \A call \in Unshares("B") :
    /\ call.action.calendarId = <<"c1">>
    /\ call.action.calendarName = <<"n">>

Highest(S) == CHOOSE x \in S : \A y \in S : y <= x

\* The watermark of a calendar as a set: empty when absent.
Mark(p, calendarId) ==
  IF calendarId \in DOMAIN lastProcessedTimestamp[p]
    THEN {lastProcessedTimestamp[p][calendarId]}
    ELSE {}

\* C30 (SpecMark): the watermark of a calendar is the highest timestamp among
\* the creates, updates and deletes admitted on its channel since the last
\* resetSyncState of it or disconnect, and absent when there is none.  Step by
\* step: it is absent at first; an admitted create, update or delete sets it to
\* the higher of its value and the message's timestamp, on the channel's
\* calendar only; resetSyncState removes it for its calendar and disconnect
\* for every calendar; an admitted bulk sync, description or unshare, a dropped
\* message and every other operation leave every watermark as it was.
C30_WatermarkIsHighestAdmitted ==
  /\ \A c \in Calendars : Mark("A", c) = {}
  /\ [][\A c \in Calendars :
          LET m == last'.message
              here == last'.op = "handleIncomingMessage" /\ last'.calendarId = c
          IN CASE here /\ last'.invoked /\ m.type \in MutationTypes ->
                    Mark("A", c)' = {Highest(Mark("A", c) \cup {m.timestamp})}
               [] last'.op = "resetSyncState" /\ last'.calendarId = c ->
                    Mark("A", c)' = {}
               [] last'.op = "disconnect" ->
                    Mark("A", c)' = {}
               [] OTHER ->
                    Mark("A", c)' = Mark("A", c)]_vars

\* A bulk sync newer than the watermark has just been admitted on c1 and the
\* watermark still is the timestamp of the create admitted before it, while c2
\* has none.
C30_Witness ==
  /\ last.op = "handleIncomingMessage"
  /\ last.calendarId = "c1"
  /\ last.invoked
  /\ last.message.type = "SYNC_EVENTS"
  /\ last.message.timestamp = MaxInboundTimestamp
  /\ Mark("A", "c1") = {1}
  /\ Mark("A", "c2") = {}

\* C28 (SpecUnshare): when the sharer turns the sharing of a connected shared
\* calendar off, the unshare notice is published on the calendar's channel,
\* and the channel is still registered when it is.  The toggle publishes
\* nothing.
C28_UnsharePublishedFirst ==
  [][\A c \in Calendars :
       (/\ last'.op = "handleCalendarShareToggle"
        /\ last'.calendarId = c
        /\ c \in channels["A"]
        /\ isConnected["A"])
       => /\ Len(topic'[c]) = Len(topic[c]) + 1
          /\ topic'[c][Len(topic'[c])].type = "UNSHARE_CALENDAR"
          /\ c \in channels'["A"]]_vars

\* C31 (Spec): the watermark test applies to creates, updates and deletes
\* only: a description or an unshare notice from the remote peer whose identity
\* is not in the ledger is admitted, whatever its timestamp.  The handler
\* exempts bulk syncs only, so a description not newer than the watermark is
\* dropped.
C31_WatermarkForMutationsOnly ==
  [][(/\ last'.op = "handleIncomingMessage"
      /\ last'.peer = "A"
      /\ last'.message.type \in {"SYNC_CALENDAR_DESCRIPTION", "UNSHARE_CALENDAR"}
      /\ last'.message.senderId # senderId("A")
      /\ messageId(last'.message) \notin Ledger("A"))
     => last'.invoked]_vars

\* C32 (SpecKey): B, whose channel of the private calendar c1 is stored with
\* no key or with a key other than A's, is never handed an action A published
\* on c1.  The key is stored and never applied, so B is handed every one.
C32_KeyIsCapability ==
  [][(/\ last'.op = "handleIncomingMessage"
      /\ last'.peer = "B"
      /\ last'.calendarId = "c1"
      /\ keyOf("A", "c1") = <<"k">>
      /\ keyOf("B", "c1") # <<"k">>)
     => ~last'.invoked]_vars

\* C33 (SpecWatermark): admission on one channel does not depend on what was
\* received on another: a message from the remote peer that was never handed
\* over on channel c, and is a bulk sync or newer than the watermark of c, is
\* admitted on c.  The ledger is one set for all channels and its identities do
\* not name the calendar, so the same identity on a second channel is dropped.
C33_ChannelsIndependent ==
  [][\A c \in Calendars :
       (/\ last'.op = "handleIncomingMessage"
        /\ last'.peer = "A"
        /\ last'.calendarId = c
        /\ last'.message.senderId # senderId("A")
        /\ \/ last'.message.type = "SYNC_EVENTS"
           \/ last'.message.timestamp > getLastProcessedTimestamp("A", c)
        /\ ~BagIn(Call(c, last'.message), onEventAction["A"]))
       => last'.invoked]_vars

\* C34 (SpecNet): a message the handler rejects, because it carries the
\* manager's own senderId, or its identity is in the ledger, or it is not a
\* bulk sync and not newer than the watermark of its channel, leaves the
\* ledger and every watermark as they were and invokes neither onEventAction
\* nor the error callback.
C34_RejectedChangesNothing ==
  [][\A p \in Peers, c \in Calendars :
       (/\ last'.op = "handleIncomingMessage"
        /\ last'.peer = p
        /\ last'.calendarId = c
        /\ \/ last'.message.senderId = senderId(p)
           \/ messageId(last'.message) \in Ledger(p)
           \/ /\ last'.message.timestamp <= getLastProcessedTimestamp(p, c)
              /\ last'.message.type # "SYNC_EVENTS")
       => /\ ~last'.invoked
          /\ ~last'.error
          /\ UNCHANGED <<processedMessageIds, lastProcessedTimestamp, onEventAction>>]_vars

\* B has just skipped a stale message that is not in its ledger, and A has
\* skipped a message of its own before.
C34_Witness ==
  /\ last.op = "handleIncomingMessage"
  /\ last.peer = "B"
  /\ ~last.invoked
  /\ ~last.error
  /\ messageId(last.message) \notin Ledger("B")
  /\ last.message.timestamp <= getLastProcessedTimestamp("B", "c1")
  /\ "c1" \in listeners["A"]

\* C35 (SpecEcho): createEvent, updateEvent, deleteEvent, syncEvents,
\* syncCalendarDescription, unshareCalendar and initializeSharing, whether they
\* succeed or fail, change neither the ledger nor any watermark nor the
\* channel registry; and the manager of SpecEcho, which publishes and is handed
\* nothing but its own messages, never has a watermark, so that
\* canUseIncrementalSync is false for every calendar.
C35_SendsLeaveSyncState ==
  /\ [](\A c \in Calendars : ~canUseIncrementalSync("A", c))
  /\ [][(last'.op \in DOMAIN TypeOfOperation \cup {"syncEvents", "initializeSharing"})
        => UNCHANGED <<processedMessageIds, lastProcessedTimestamp, channels>>]_vars

\* A connected manager has just published its second message, a delete after
\* an update.
C35_Witness ==
  /\ last.op = "deleteEvent"
  /\ last.returned
  /\ Len(topic["c1"]) = 2
  /\ topic["c1"][1].type = "UPDATE_EVENT"
  /\ now > 0

\* C36 (SpecAdd): under calls of addCalendarChannel that overlap, one channel
\* and one message-received subscription are created per calendar id: a call
\* that comes back from its await with a channel attaches a listener only if
\* the id has none.  The registry is tested before the await only, so the
\* second of two overlapping calls attaches a second listener.
C36_OneSubscriptionPerCalendar ==
  [][\A i \in CallIds :
       (/\ adding[i] # Undefined
        /\ adding'[i] = Undefined
        /\ last'.op = "addCalendarChannel"
        /\ last'.returned)
       => adding[i][1].calendarId \notin listeners[adding[i][1].peer]]_vars

\* C37 (SpecHook): the calendars in the hook's connections map are the
\* calendars that have a channel in its manager.  performInitialization
\* replaces the map by the connections of the calendars it was given, so
\* draining the pending calendars drops the connection of a calendar that was
\* added before, while its channel stays.
C37_ConnectionsAreChannels == DOMAIN connections = channels["A"]

\* C38 (SpecStop): a manager that disconnect() has left without a node holds
\* no channel, an empty ledger and no watermark and is not connected, whatever
\* the stopped node reports afterwards, and every send on it returns false.
\* The health listener of the stopped node still sets the flag, and
\* initializeSharing looks at the flag only.
C38_DisconnectedStaysDown ==
  /\ [](~node["A"] => /\ channels["A"] = {}
                      /\ Ledger("A") = {}
                      /\ \A c \in Calendars : ~canUseIncrementalSync("A", c)
                      /\ ~isConnected["A"])
  /\ [][(/\ ~node["A"]
         /\ last'.op \in DOMAIN TypeOfOperation \cup {"syncEvents", "initializeSharing"})
        => ~last'.returned]_vars

\* The ids in a list of events.
IdsOf(evts) == {evts[k].id : k \in 1..Len(evts)}

====
